---- MODULE Spec2Model ----
(***************************************************************************)
(* electricui-embedded: packet view (wire/packet.rs), COBS framing         *)
(* (wire/framing.rs) and the byte-at-a-time frame decoder (decoder.rs).    *)
(*                                                                         *)
(* Buffers are sequences of bytes (0..255).  Rust index i of a slice is    *)
(* element i + 1 of the sequence.                                          *)
(***************************************************************************)
EXTENDS Integers, Sequences, FiniteSets, TLC

(***************************************************************************)
(* Bit operations on values below 2^16, as the code's &, |, ^, <<, >> on   *)
(* u8 and u16.                                                             *)
(***************************************************************************)
\* 2^n for n in 0..16
Pow2(n) ==
    <<1, 2, 4, 8, 16, 32, 64, 128, 256, 512, 1024, 2048, 4096, 8192, 16384,
      32768, 65536>>[n + 1]

\* bit i of v
Bit(v, i) == (v \div Pow2(i)) % 2

\* the 16-bit word whose bit i is T[2 * (bit i of a) + (bit i of b) + 1]
BitOf(T, a, b, i) == T[2 * Bit(a, i) + Bit(b, i) + 1]
Nibble(T, a, b, k) ==
    (BitOf(T, a, b, k) + 2 * BitOf(T, a, b, k + 1))
        + (4 * BitOf(T, a, b, k + 2) + 8 * BitOf(T, a, b, k + 3))
Word(T, a, b) ==
    (Nibble(T, a, b, 0) + 16 * Nibble(T, a, b, 4))
        + (256 * Nibble(T, a, b, 8) + 4096 * Nibble(T, a, b, 12))

BitAnd(a, b) == Word(<<0, 0, 0, 1>>, a, b)

BitOr(a, b) == Word(<<0, 1, 1, 1>>, a, b)

BitXor(a, b) == Word(<<0, 1, 1, 0>>, a, b)

\* v << n and v >> n on a w-bit unsigned integer
Shl(v, n, w) == (v * Pow2(n)) % Pow2(w)
Shr(v, n) == v \div Pow2(n)
\* !m on a u8
Not8(m) == 255 - m

Byte == 0..255

\* slice[i] with a Rust (0-based) index
At(b, i) == b[i + 1]
\* slice[lo..hi] with Rust (0-based, half-open) indices
Slice(b, lo, hi) == SubSeq(b, lo + 1, hi)
\* [v; n]
RECURSIVE Fill(_, _)
Fill(v, n) ==
    IF n = 0 THEN <<>>
    ELSE LET half == Fill(v, n \div 2)
         IN  IF n % 2 = 1 THEN Append(half \o half, v) ELSE half \o half
\* b with b[start..start + src.len()] overwritten by src (copy_from_slice)
CopyAt(b, start, src) ==
    SubSeq(b, 1, start) \o src \o SubSeq(b, start + Len(src) + 1, Len(b))

(***************************************************************************)
(* Result values.                                                          *)
(***************************************************************************)
Ok(v) == [ok |-> TRUE, val |-> v, err |-> "none"]
Err(e) == [ok |-> FALSE, val |-> 0, err |-> e]
\* an error of a method on a mutable buffer, with the buffer as the method left it
Failed(e, b) == [ok |-> FALSE, val |-> b, err |-> e]
\* a panic: an index or a slice range outside the buffer, a failed debug_assert
Panic == Err("panic")

(***************************************************************************)
(* wire/packet.rs: constants                                               *)
(***************************************************************************)
HEADER_SIZE == 3
CHECKSUM_SIZE == 2
OFFSET_SIZE == 2
MAX_PAYLOAD_SIZE == 1024
MAX_MSG_ID_SIZE == 15
BASE_PACKET_SIZE == HEADER_SIZE + CHECKSUM_SIZE
MAX_PACKET_SIZE == BASE_PACKET_SIZE + MAX_MSG_ID_SIZE + MAX_PAYLOAD_SIZE
\* field::REST.start
REST_start == 3

\* CRC16_CCITT_FALSE: poly 0x1021, init 0xFFFF, refin/refout false, xorout 0
CRC_POLY == 4129
CRC_INIT == 65535

\* one bit of the CRC register: shift left, xor the polynomial when the top
\* bit falls out
CrcShift(c) ==
    IF c >= 32768 THEN BitXor((c * 2) % 65536, CRC_POLY) ELSE c * 2

\* one input byte: xor it into the high byte, then eight shifts
CrcByte(c, byte) ==
    CrcShift(CrcShift(CrcShift(CrcShift(
    CrcShift(CrcShift(CrcShift(CrcShift(BitXor(c, byte * 256)))))))))

\* the u16 register after bytes[lo..hi], the bytes taken in order (the range
\* is halved to keep the evaluation shallow)
RECURSIVE CrcFold(_, _, _, _)
CrcFold(c, bytes, lo, hi) ==
    IF c > 65535 \/ lo > hi THEN c
    ELSE IF lo = hi THEN CrcByte(c, bytes[lo])
    ELSE LET mid == (lo + hi) \div 2
         IN  CrcFold(CrcFold(c, bytes, lo, mid), bytes, mid + 1, hi)

\* Crc::<u16>::new(&CRC16_CCITT_FALSE).checksum(bytes)
crc_checksum(bytes) == CrcFold(CRC_INIT, bytes, 1, Len(bytes))

\* LittleEndian::read_u16 / write_u16 on a two-byte slice at Rust index i
read_u16(b, i) == At(b, i) + 256 * At(b, i + 1)
write_u16(b, i, v) == CopyAt(b, i, <<v % 256, v \div 256>>)

(***************************************************************************)
(* wire/packet.rs: accessors                                               *)
(***************************************************************************)
\* buffer_len without the two checksum bytes
buffer_len_NoChecksum(n_msg_id_bytes, n_payload_bytes) ==
    HEADER_SIZE + n_msg_id_bytes + n_payload_bytes

buffer_len(n_msg_id_bytes, n_payload_bytes) ==
    BASE_PACKET_SIZE + n_msg_id_bytes + n_payload_bytes

data_length(b) == BitAnd(read_u16(b, 0), 1023)

typ_raw(b) == BitAnd(Shr(At(b, 1), 2), 15)

internal(b) == BitAnd(Shr(At(b, 1), 6), 1) # 0

offset(b) == BitAnd(Shr(At(b, 1), 7), 1) # 0

id_length_raw(b) == BitAnd(At(b, 2), 15)

\* id_length without the test for zero
id_length_Unchecked(b) == Ok(id_length_raw(b))

id_length(b) ==
    IF id_length_raw(b) = 0 THEN Err("InvalidMessageIdLength")
    ELSE Ok(id_length_raw(b))

response(b) == BitAnd(Shr(At(b, 2), 4), 1) # 0

acknum(b) == BitAnd(Shr(At(b, 2), 5), 7)

\* the stored checksum: the two bytes after header, id and payload
checksum(b) ==
    LET id == id_length(b)
        start == REST_start + id.val + data_length(b)
        end == start + CHECKSUM_SIZE
    IN  IF ~id.ok THEN id
        ELSE IF end > Len(b) THEN Panic
        ELSE Ok(read_u16(b, start))

\* compute_checksum with the CRC taken over the checksum field as well
compute_checksum_WithChecksumField(b) ==
    LET id == id_length(b)
        end == HEADER_SIZE + id.val + data_length(b) + CHECKSUM_SIZE
    IN  IF ~id.ok THEN id
        ELSE IF end > Len(b) THEN Panic
        ELSE Ok(crc_checksum(Slice(b, 0, end)))

\* the CRC of header, id and payload
compute_checksum(b) ==
    LET id == id_length(b)
        end == HEADER_SIZE + id.val + data_length(b)
    IN  IF ~id.ok THEN id
        ELSE IF end > Len(b) THEN Panic
        ELSE Ok(crc_checksum(Slice(b, 0, end)))

(***************************************************************************)
(* message.rs, wire/types.rs: message types and message ids.  A message    *)
(* type is the name of its variant; Unknown(n) does not occur here, since  *)
(* wire_type has no arm for it.                                            *)
(***************************************************************************)
MessageTypes ==
    <<"Callback", "Custom", "OffsetMetadata", "Byte", "Char", "I8", "U8",
      "I16", "U16", "I32", "U32", "F32", "F64">>

\* MessageType::wire_type
wire_type(t) == CHOOSE w \in 0..12 : MessageTypes[w + 1] = t

\* MessageType::from_wire: Some(type) or None
from_wire(wire) ==
    IF wire <= 12 THEN Ok(MessageTypes[wire + 1]) ELSE Err("None")

\* MessageId::new without the test for the single byte 0x00
MessageId_new_ZeroAllowed(id) ==
    IF Len(id) = 0 \/ Len(id) > MAX_MSG_ID_SIZE THEN Err("None") ELSE Ok(id)

\* MessageId::new: Some(id) or None
MessageId_new(id) ==
    IF Len(id) = 0 \/ Len(id) > MAX_MSG_ID_SIZE \/ (Len(id) = 1 /\ id[1] = 0)
    THEN Err("None")
    ELSE Ok(id)

\* Packet::typ; the error carries the wire code
typ(b) ==
    LET t == typ_raw(b)
    IN  IF from_wire(t).ok THEN from_wire(t)
        ELSE [Err("UnknownMessageType") EXCEPT !.val = t]

msg_id_raw(b) ==
    LET id == id_length(b)
        end == REST_start + id.val
    IN  IF ~id.ok THEN id
        ELSE IF end > Len(b) THEN Panic
        ELSE Ok(Slice(b, REST_start, end))

\* msg_id without the test of the id bytes
msg_id_Raw(b) == msg_id_raw(b)

msg_id(b) ==
    LET raw == msg_id_raw(b)
    IN  IF ~raw.ok THEN raw
        ELSE IF MessageId_new(raw.val).ok THEN MessageId_new(raw.val)
        ELSE Err("InvalidMessageId")

payload(b) ==
    LET id == id_length(b)
        start == REST_start + id.val
        end == start + data_length(b)
    IN  IF ~id.ok THEN id
        ELSE IF end > Len(b) THEN Panic
        ELSE Ok(Slice(b, start, end))

wire_size(b) ==
    LET id == id_length(b)
    IN  IF ~id.ok THEN id ELSE Ok(buffer_len(id.val, data_length(b)))

(***************************************************************************)
(* wire/packet.rs: validation                                              *)
(***************************************************************************)
\* check_len without the test for the two checksum bytes
check_len_HeaderOnly(b) ==
    IF Len(b) < REST_start THEN Err("MissingHeader")
    ELSE Ok(0)

check_len(b) ==
    IF Len(b) < REST_start THEN Err("MissingHeader")
    ELSE IF Len(b) < REST_start + CHECKSUM_SIZE THEN Err("MissingChecksum")
    ELSE Ok(0)

\* check_payload_length without the comparison with the buffer's length
check_payload_length_IdOnly(b) ==
    LET id == id_length(b)
    IN  IF ~id.ok THEN id ELSE Ok(0)

check_payload_length(b) ==
    LET id == id_length(b)
    IN  IF ~id.ok THEN id
        ELSE IF Len(b) < buffer_len(id.val, data_length(b))
             THEN Err("IncompletePayload")
             ELSE Ok(0)

\* check_checksum without the comparison of the two checksums
check_checksum_Unchecked(b) ==
    LET provided == checksum(b)
        computed == compute_checksum(b)
    IN  IF ~provided.ok THEN provided
        ELSE IF ~computed.ok THEN computed
        ELSE Ok(0)

check_checksum(b) ==
    LET provided == checksum(b)
        computed == compute_checksum(b)
    IN  IF ~provided.ok THEN provided
        ELSE IF ~computed.ok THEN computed
        ELSE IF computed.val # provided.val THEN Err("InvalidChecksum")
        ELSE Ok(0)

\* Packet::new that also refuses a type code typ() has no type for
Packet_new_TypeChecked(b) ==
    IF ~check_len(b).ok THEN check_len(b)
    ELSE IF ~check_payload_length(b).ok THEN check_payload_length(b)
    ELSE IF ~check_checksum(b).ok THEN check_checksum(b)
    ELSE IF ~typ(b).ok THEN Err("UnknownMessageType")
    ELSE Ok(0)

\* Packet::new: the three checks in order, the first failure is returned
Packet_new(b) ==
    IF ~check_len(b).ok THEN check_len(b)
    ELSE IF ~check_payload_length(b).ok THEN check_payload_length(b)
    ELSE IF ~check_checksum(b).ok THEN check_checksum(b)
    ELSE Ok(0)

(***************************************************************************)
(* wire/packet.rs: setters; the fallible ones return Ok(buffer) or          *)
(* Failed(error, buffer)                                                   *)
(***************************************************************************)
\* set_data_length with the write ahead of the range check
set_data_length_WriteFirst(b, value) ==
    LET written == write_u16(b, 0, BitAnd(value, 1023))
    IN  IF value > MAX_PAYLOAD_SIZE THEN Failed("InvalidDataLength", written)
        ELSE Ok(written)

set_data_length(b, value) ==
    IF value > MAX_PAYLOAD_SIZE THEN Failed("InvalidDataLength", b)
    ELSE Ok(write_u16(b, 0, BitAnd(value, 1023)))

\* set_typ without the shift to the field's place
set_typ_Unshifted(b, value) ==
    [b EXCEPT ![2] = BitOr(BitAnd(At(b, 1), Not8(60)), value)]

\* value is the type's wire code (MessageType::wire_type)
set_typ(b, value) ==
    [b EXCEPT ![2] = BitOr(BitAnd(At(b, 1), Not8(60)), Shl(value, 2, 8))]

set_internal(b, value) ==
    [b EXCEPT ![2] = IF value THEN BitOr(At(b, 1), 64)
                     ELSE BitAnd(At(b, 1), Not8(64))]

set_offset(b, value) ==
    [b EXCEPT ![2] = IF value THEN BitOr(At(b, 1), 128)
                     ELSE BitAnd(At(b, 1), Not8(128))]

set_id_length(b, value) ==
    IF value = 0 \/ value > MAX_MSG_ID_SIZE THEN Failed("InvalidMessageIdLength", b)
    ELSE Ok([b EXCEPT ![3] = BitOr(BitAnd(At(b, 2), Not8(15)), BitAnd(value, 15))])

set_response(b, value) ==
    [b EXCEPT ![3] = IF value THEN BitOr(At(b, 2), 16)
                     ELSE BitAnd(At(b, 2), Not8(16))]

set_acknum(b, value) ==
    [b EXCEPT ![3] = BitOr(BitAnd(At(b, 2), Not8(224)), Shl(BitAnd(value, 7), 5, 8))]

set_checksum(b, value) ==
    LET id == id_length(b)
        start == REST_start + id.val + data_length(b)
        end == start + CHECKSUM_SIZE
    IN  IF ~id.ok THEN Failed(id.err, b)
        ELSE IF end > Len(b) THEN Panic
        ELSE Ok(write_u16(b, start, value))

\* msg_id_mut().copy_from_slice(id)
copy_msg_id(b, id) == CopyAt(b, REST_start, id)

\* payload_mut().copy_from_slice(data)
copy_payload(b, data) == CopyAt(b, REST_start + id_length_raw(b), data)

\* a packet as the tests build it: the setters in the order of
\* tests::construct_i8, then the id, the payload and the checksum; r holds the
\* values written.  An unwrap of an error is a panic
construct(b, r) ==
    LET s1 == set_data_length(b, r.data_length)
        b2 == set_typ(s1.val, wire_type(r.typ))
        b3 == set_internal(b2, r.internal)
        b4 == set_offset(b3, r.offset)
        s5 == set_id_length(b4, r.id_length)
        b6 == set_response(s5.val, r.response)
        b7 == set_acknum(b6, r.acknum)
        b8 == copy_msg_id(b7, r.id)
        b9 == copy_payload(b8, r.data)
        crc == compute_checksum(b9)
        s10 == set_checksum(b9, crc.val)
    IN  IF ~s1.ok \/ ~s5.ok \/ ~crc.ok THEN Panic ELSE s10

(***************************************************************************)
(* wire/framing.rs: COBS framing (corncobs).  The delimiter is 0x00; a     *)
(* code byte c < 0xFF stands for c - 1 data bytes followed by a zero (or   *)
(* by the end of the frame), the code byte 0xFF for MAX_RUN data bytes     *)
(* that are followed by no zero.                                           *)
(***************************************************************************)
ZERO == 0
MAX_RUN == 254

\* ceil(raw_len / 254) code bytes (one for the empty input) and the terminator
max_encoded_len(raw_len) ==
    raw_len + (IF raw_len = 0 THEN 1 ELSE (raw_len + 253) \div 254) + 1

\* RunLen without the limit of MAX_RUN bytes to a block
RunLen_Unlimited(bytes, i) ==
    LET limit == Len(bytes) - i + 1
        zeros == {k \in 0..(limit - 1) : bytes[i + k] = ZERO}
    IN  IF zeros = {} THEN limit
        ELSE CHOOSE k \in zeros : \A j \in zeros : k <= j

\* the number of non-zero bytes from index i on, at most MAX_RUN
RunLen(bytes, i) ==
    LET limit == IF Len(bytes) - i + 1 < MAX_RUN THEN Len(bytes) - i + 1 ELSE MAX_RUN
        zeros == {k \in 0..(limit - 1) : bytes[i + k] = ZERO}
    IN  IF zeros = {} THEN limit
        ELSE CHOOSE k \in zeros : \A j \in zeros : k <= j

\* the blocks (code byte, run) of bytes[i..]
RECURSIVE EncodeRuns(_, _)
EncodeRuns(bytes, i) ==
    LET n == RunLen(bytes, i)
        block == <<n + 1>> \o SubSeq(bytes, i, i + n - 1)
        next == i + n
    IN  IF next > Len(bytes) THEN block
        ELSE IF n = MAX_RUN THEN block \o EncodeRuns(bytes, next)
        ELSE block \o EncodeRuns(bytes, next + 1)

\* Framing::encode_buf: the blocks, then the delimiter
encode_buf(bytes) == EncodeRuns(bytes, 1) \o <<ZERO>>

\* Framing::decode_buf from the code byte at index i; out is the output so far
RECURSIVE DecodeRuns(_, _, _)
DecodeRuns(bytes, i, out) ==
    IF i > Len(bytes) THEN Err("Truncated")
    ELSE IF bytes[i] = ZERO THEN Ok(out)
    ELSE LET code == bytes[i]
             run == SubSeq(bytes, i + 1, i + code - 1)
             next == i + code
         IN  IF next > Len(bytes) THEN Err("Truncated")
             ELSE IF \E k \in 1..Len(run) : run[k] = ZERO THEN Err("Corrupt")
             ELSE IF code = 255 \/ bytes[next] = ZERO
                  THEN DecodeRuns(bytes, next, out \o run)
                  ELSE DecodeRuns(bytes, next, out \o run \o <<ZERO>>)

decode_buf(bytes) == DecodeRuns(bytes, 1, <<>>)

(***************************************************************************)
(* decoder.rs: the Decoder.  A decoder is a record of the struct's fields; *)
(* packet_storage is the caller's N-byte buffer.                           *)
(***************************************************************************)
U8_MAX == 255
U16_MAX == 65535
\* usize::MAX depends on the target; 2^31 - 1, that of a 32-bit target less
\* one bit, stands for it
USIZE_MAX == 2147483647

\* an addition that wraps around to 0 past max
wrapping_add(x, y, max) == IF x > max - y THEN x - (max - y) - 1 ELSE x + y

saturating_add(x, y, max) == IF x >= max - y THEN max ELSE x + y

States ==
    {"FrameOffset", "HeaderB0", "HeaderB1", "HeaderB2", "MsgId",
     "OffsetB0", "OffsetB1", "Payload", "CrcB0", "CrcB1"}

\* Decoder::new
Decoder_new(storage) ==
    [state |-> "FrameOffset",
     frame_offset |-> 0,
     id_bytes_read |-> 0,
     data_bytes_read |-> 0,
     bytes_read |-> 0,
     valid_pkt_count |-> 0,
     invalid_pkt_count |-> 0,
     data_len |-> 0,
     offset |-> FALSE,
     id_len |-> 0,
     packet_storage |-> storage]

\* reset that leaves frame_offset as it was
reset_KeepsFrameOffset(d) ==
    [d EXCEPT !.state = "FrameOffset", !.bytes_read = 0]

\* reset that also clears the packet counters
reset_ClearsCounters(d) ==
    [d EXCEPT !.state = "FrameOffset", !.frame_offset = 0, !.bytes_read = 0,
              !.valid_pkt_count = 0, !.invalid_pkt_count = 0]

\* Decoder::reset
reset(d) ==
    [d EXCEPT !.state = "FrameOffset", !.frame_offset = 0, !.bytes_read = 0]

count(d) == d.valid_pkt_count

invalid_count(d) == d.invalid_pkt_count

\* feed that stores the byte and leaves the cursor where it was
feed_CursorStays(d, byte) ==
    IF d.bytes_read >= Len(d.packet_storage)
    THEN [ok |-> FALSE, dec |-> d]
    ELSE [ok |-> TRUE,
          dec |-> [d EXCEPT !.packet_storage[d.bytes_read + 1] = byte]]

\* feed that refuses the last slot of the buffer
feed_FullOneEarly(d, byte) ==
    IF d.bytes_read + 1 >= Len(d.packet_storage)
    THEN [ok |-> FALSE, dec |-> d]
    ELSE [ok |-> TRUE,
          dec |-> [d EXCEPT !.packet_storage[d.bytes_read + 1] = byte,
                            !.bytes_read = saturating_add(d.bytes_read, 1, USIZE_MAX)]]

\* Decoder::feed that gives the buffer up when it is full: the error is
\* returned and the cursor goes back to the start
feed_FullClearsCursor(d, byte) ==
    IF d.bytes_read >= Len(d.packet_storage)
    THEN [ok |-> FALSE, dec |-> [d EXCEPT !.bytes_read = 0]]
    ELSE [ok |-> TRUE,
          dec |-> [d EXCEPT !.packet_storage[d.bytes_read + 1] = byte,
                            !.bytes_read = saturating_add(d.bytes_read, 1, USIZE_MAX)]]

\* Decoder::feed: the decoder after the call and whether it returned Ok
feed(d, byte) ==
    IF d.bytes_read >= Len(d.packet_storage)
    THEN [ok |-> FALSE, dec |-> d]
    ELSE [ok |-> TRUE,
          dec |-> [d EXCEPT !.packet_storage[d.bytes_read + 1] = byte,
                            !.bytes_read = saturating_add(d.bytes_read, 1, USIZE_MAX)]]

\* what decode returns: Ok(None), Ok(Some(packet)), Err(InsufficientBufferSize),
\* Err(PacketError(e))
OkNone == [kind |-> "OkNone", err |-> "none", bytes |-> <<>>]
OkPacket(bytes) == [kind |-> "OkPacket", err |-> "none", bytes |-> bytes]
InsufficientBufferSize ==
    [kind |-> "InsufficientBufferSize", err |-> "none", bytes |-> <<>>]
PacketError(e) == [kind |-> "PacketError", err |-> e, bytes |-> <<>>]

Outcome(d, r) == [dec |-> d, ret |-> r]

\* the COBS part of decode for a non-zero byte: the decoder and the
\* reconstructed byte
unframe(d, byte) ==
    IF d.frame_offset > 1
    THEN [dec |-> [d EXCEPT !.frame_offset = d.frame_offset - 1], byte |-> byte]
    ELSE [dec |-> [d EXCEPT !.frame_offset = byte], byte |-> 0]

\* the arm of State::MsgId going to OffsetB0 whatever the offset flag is
on_MsgId_AlwaysOffset(d) ==
    LET d1 == [d EXCEPT !.id_bytes_read = saturating_add(d.id_bytes_read, 1, U8_MAX)]
    IN  IF d1.id_bytes_read >= d1.id_len THEN [d1 EXCEPT !.state = "OffsetB0"] ELSE d1

\* the arm of State::MsgId after feed
on_MsgId(d) ==
    LET d1 == [d EXCEPT !.id_bytes_read = saturating_add(d.id_bytes_read, 1, U8_MAX)]
    IN  IF d1.id_bytes_read >= d1.id_len
        THEN IF d1.offset THEN [d1 EXCEPT !.state = "OffsetB0"]
             ELSE IF d1.data_len > 0
                  THEN [d1 EXCEPT !.data_bytes_read = 0, !.state = "Payload"]
                  ELSE [d1 EXCEPT !.state = "CrcB0"]
        ELSE d1

\* the arm of State::Payload after feed
on_Payload(d) ==
    LET d1 == [d EXCEPT !.data_bytes_read = saturating_add(d.data_bytes_read, 1, U16_MAX)]
    IN  IF d1.data_bytes_read >= d1.data_len THEN [d1 EXCEPT !.state = "CrcB0"] ELSE d1

\* the arm of State::CrcB1 counting every completed frame as a packet
on_CrcB1_CountsEveryFrame(d) ==
    LET bytes_read == d.bytes_read
        d1 == reset(d)
        bytes == Slice(d1.packet_storage, 0, bytes_read)
        p == Packet_new(bytes)
        d2 == [d1 EXCEPT !.valid_pkt_count =
                   saturating_add(d1.valid_pkt_count, 1, USIZE_MAX)]
    IN  IF p.ok THEN Outcome(d2, OkPacket(bytes)) ELSE Outcome(d2, PacketError(p.err))

\* the arm of State::CrcB1 returning the error of Packet::new without counting it
on_CrcB1_ErrorUncounted(d) ==
    LET bytes_read == d.bytes_read
        d1 == reset(d)
        bytes == Slice(d1.packet_storage, 0, bytes_read)
        p == Packet_new(bytes)
    IN  IF p.ok
        THEN Outcome([d1 EXCEPT !.valid_pkt_count =
                          saturating_add(d1.valid_pkt_count, 1, USIZE_MAX)],
                     OkPacket(bytes))
        ELSE Outcome(d1, PacketError(p.err))

\* the arm of State::CrcB1 after feed: reset, then Packet::new on the bytes read
on_CrcB1(d) ==
    LET bytes_read == d.bytes_read
        d1 == reset(d)
        bytes == Slice(d1.packet_storage, 0, bytes_read)
        p == Packet_new(bytes)
    IN  IF p.ok
        THEN Outcome([d1 EXCEPT !.valid_pkt_count =
                          saturating_add(d1.valid_pkt_count, 1, USIZE_MAX)],
                     OkPacket(bytes))
        ELSE Outcome([d1 EXCEPT !.invalid_pkt_count =
                          saturating_add(d1.invalid_pkt_count, 1, USIZE_MAX)],
                     PacketError(p.err))

\* the match on self.state with the second header byte shifted into data_len
\* without the mask 0x0300
on_state_DataLenUnmasked(d, byte) ==
    LET f == feed(d, byte)
        d1 == f.dec
    IN  IF ~f.ok THEN Outcome(d1, InsufficientBufferSize)
        ELSE CASE d.state = "HeaderB0" ->
                    Outcome([d1 EXCEPT !.data_len = byte, !.state = "HeaderB1"], OkNone)
               [] d.state = "HeaderB1" ->
                    Outcome([d1 EXCEPT
                                !.data_len = BitOr(d1.data_len, Shl(byte, 8, 16)),
                                !.offset = BitAnd(Shr(byte, 7), 1) # 0,
                                !.state = "HeaderB2"], OkNone)
               [] d.state = "HeaderB2" ->
                    Outcome([d1 EXCEPT !.id_len = BitAnd(byte, 15),
                                       !.id_bytes_read = 0,
                                       !.state = "MsgId"], OkNone)
               [] d.state = "MsgId" -> Outcome(on_MsgId(d1), OkNone)
               [] d.state = "OffsetB0" -> Outcome([d1 EXCEPT !.state = "OffsetB1"], OkNone)
               [] d.state = "OffsetB1" -> Outcome([d1 EXCEPT !.state = "Payload"], OkNone)
               [] d.state = "Payload" -> Outcome(on_Payload(d1), OkNone)
               [] d.state = "CrcB0" -> Outcome([d1 EXCEPT !.state = "CrcB1"], OkNone)
               [] d.state = "CrcB1" -> on_CrcB1(d1)

\* the match on self.state, for the states that feed the reconstructed byte
on_state(d, byte) ==
    LET f == feed(d, byte)
        d1 == f.dec
    IN  IF ~f.ok THEN Outcome(d1, InsufficientBufferSize)
        ELSE CASE d.state = "HeaderB0" ->
                    Outcome([d1 EXCEPT !.data_len = byte, !.state = "HeaderB1"], OkNone)
               [] d.state = "HeaderB1" ->
                    Outcome([d1 EXCEPT
                                !.data_len = BitOr(d1.data_len, BitAnd(Shl(byte, 8, 16), 768)),
                                !.offset = BitAnd(Shr(byte, 7), 1) # 0,
                                !.state = "HeaderB2"], OkNone)
               [] d.state = "HeaderB2" ->
                    Outcome([d1 EXCEPT !.id_len = BitAnd(byte, 15),
                                       !.id_bytes_read = 0,
                                       !.state = "MsgId"], OkNone)
               [] d.state = "MsgId" -> Outcome(on_MsgId(d1), OkNone)
               [] d.state = "OffsetB0" -> Outcome([d1 EXCEPT !.state = "OffsetB1"], OkNone)
               [] d.state = "OffsetB1" -> Outcome([d1 EXCEPT !.state = "Payload"], OkNone)
               [] d.state = "Payload" -> Outcome(on_Payload(d1), OkNone)
               [] d.state = "CrcB0" -> Outcome([d1 EXCEPT !.state = "CrcB1"], OkNone)
               [] d.state = "CrcB1" -> on_CrcB1(d1)

\* Decoder::decode
decode(d, byte) ==
    IF byte = 0 THEN Outcome(reset(d), OkNone)
    ELSE LET u == unframe(d, byte)
         IN  IF u.dec.state = "FrameOffset"
             THEN Outcome([u.dec EXCEPT !.state = "HeaderB0"], OkNone)
             ELSE on_state(u.dec, u.byte)

(***************************************************************************)
(* Packets and frames the transport delivers.                              *)
(***************************************************************************)
\* tests::MSG_I8 and tests::MSG_F32 without their framing bytes
PKT_I8 == <<1, 20, 99, 97, 98, 99, 42, 184, 163>>
PKT_F32 == <<4, 44, 3, 97, 98, 99, 20, 174, 41, 66, 139, 29>>
\* the smallest packet: type Custom, id "a", no payload
PKT_MIN == <<0, 4, 1, 97, 182, 23>>
\* type U8, id "a", payload 00 05: zero bytes inside the frame
PKT_ZERO == <<2, 24, 1, 97, 0, 5, 109, 9>>
\* type Custom, id "a", payload 07, the offset flag set, and two more bytes
PKT_OFF == <<1, 132, 1, 97, 7, 88, 211, 1, 2>>

\* frame f with the byte at index i replaced by another non-zero byte
Corrupt(f, i, delta) == [f EXCEPT ![i] = ((f[i] + delta - 1) % 255) + 1]

(***************************************************************************)
(* The decoder behind a transport.  wire holds the bytes of the frame in   *)
(* flight; call, prev and ret record the last call on the decoder, the     *)
(* decoder before it and what it returned.  script and got belong to the   *)
(* scripted runs further down: the byte stream of the run and the calls    *)
(* that returned something other than Ok(None).  buf, pre and op belong to *)
(* the runs on packet buffers at the end: a buffer, the buffer before the  *)
(* last operation on it and that operation with its result.                *)
(***************************************************************************)
VARIABLES dec, prev, call, ret, wire, events, script, got, buf, pre, op

vars == <<dec, prev, call, ret, wire, events, script, got, buf, pre, op>>

\* the variables of the decoder runs and those of the packet buffer runs
dvars == <<dec, prev, call, ret, wire, events, script, got>>
pvars == <<buf, pre, op>>

\* no operation on a packet buffer yet
NoOp == [name |-> "none", arg |-> <<>>, ok |-> TRUE, err |-> "none", out |-> <<>>]
\* the packet buffer variables of a decoder run
NoBuffer == buf = <<>> /\ pre = <<>> /\ op = NoOp

\* N, the size of the caller's buffer
BufLen == 9
\* the number of frames sent, line faults and resets of one run
MaxEvents == 3

Packets == {PKT_MIN, PKT_I8, PKT_F32, PKT_ZERO, PKT_OFF}
ValidFrames == {encode_buf(p) : p \in Packets}
\* corrupted frames: <<packet, index in its frame, amount added to the byte>>;
\* the COBS code byte, data_length, id_length (to 2 and to 0), payload
Faults ==
    {<<PKT_I8, 1, 254>>, <<PKT_I8, 2, 1>>, <<PKT_I8, 2, 254>>,
     <<PKT_I8, 4, 254>>, <<PKT_I8, 8, 1>>, <<PKT_MIN, 4, 15>>}
CorruptFrames == {Corrupt(encode_buf(c[1]), c[2], c[3]) : c \in Faults}
Frames == ValidFrames \cup CorruptFrames
\* bytes a line fault inserts
NoiseBytes == {0, 1}

\* a run of the transport follows no script
NoScript == [kind |-> "none", pkts |-> <<>>, junk |-> <<>>, bad |-> <<>>, n |-> BufLen]

Init ==
    /\ dec = Decoder_new(Fill(0, BufLen))
    /\ prev = dec
    /\ call = [op |-> "new", byte |-> 0]
    /\ ret = OkNone
    /\ wire = <<>>
    /\ events = 0
    /\ script = NoScript
    /\ got = <<>>
    /\ NoBuffer

\* a call of decode(byte)
DoDecode(byte) ==
    LET o == decode(dec, byte)
    IN  /\ dec' = o.dec
        /\ ret' = o.ret
        /\ prev' = dec
        /\ call' = [op |-> "decode", byte |-> byte]

\* the transport takes up a frame
Send(f) ==
    /\ wire = <<>>
    /\ events < MaxEvents
    /\ events' = events + 1
    /\ wire' = f
    /\ UNCHANGED <<dec, prev, call, ret, script, got, pvars>>

\* the next byte of the frame arrives
Receive ==
    /\ wire # <<>>
    /\ DoDecode(Head(wire))
    /\ wire' = Tail(wire)
    /\ UNCHANGED <<events, script, got, pvars>>

\* a line fault inserts a byte
Noise(byte) ==
    /\ events < MaxEvents
    /\ events' = events + 1
    /\ DoDecode(byte)
    /\ UNCHANGED <<wire, script, got, pvars>>

\* the caller resets the decoder
Reset ==
    /\ events < MaxEvents
    /\ events' = events + 1
    /\ dec' = reset(dec)
    /\ prev' = dec
    /\ call' = [op |-> "reset", byte |-> 0]
    /\ ret' = OkNone
    /\ UNCHANGED <<wire, script, got, pvars>>

Next ==
    \/ \E f \in Frames : Send(f)
    \/ Receive
    \/ \E byte \in NoiseBytes : Noise(byte)
    \/ Reset

Spec == Init /\ [][Next]_vars

(***************************************************************************)
(* Scripted runs: a fresh decoder is fed one byte stream from its first    *)
(* byte to its last, as in tests::basic_decoding.  The stream is a valid   *)
(* frame repeated, a valid frame after a cut-off frame and a delimiter, or *)
(* a corrupted frame between two valid frames.                             *)
(***************************************************************************)
\* a packet whose frame holds a full block of 254 non-zero bytes:
\* data_length 250, id "a", 250 payload bytes 0x01
PKT_LONG == <<250, 4, 1, 97>> \o Fill(1, 250) \o <<152, 27>>

\* the number of repetitions of a frame
MaxRepeat == 3

RECURSIVE Times(_, _)
Times(x, n) == IF n = 0 THEN <<>> ELSE Append(Times(x, n - 1), x)

StreamPackets == {PKT_MIN, PKT_I8, PKT_F32, PKT_ZERO, PKT_LONG}
ShortPackets == {PKT_MIN, PKT_I8, PKT_ZERO}
\* what is left in the decoder of a frame that was cut off
JunkPrefixes ==
    {SubSeq(encode_buf(PKT_F32), 1, k) : k \in {0, 2, 5, 11}}
        \cup {<<3, 255, 7, 1, 97, 1, 2, 3, 4, 5, 6, 7>>}

RepeatScripts ==
    {[kind |-> "repeat", pkts |-> Times(p, k), junk |-> <<>>, bad |-> <<>>, n |-> Len(p) + extra] :
        p \in StreamPackets, k \in 1..MaxRepeat, extra \in {0, 1}}
ResyncScripts ==
    {[kind |-> "resync", pkts |-> <<p>>, junk |-> j, bad |-> <<>>, n |-> Len(p)] :
        p \in StreamPackets, j \in JunkPrefixes}
FaultScripts ==
    {[kind |-> "fault", pkts |-> <<a, b>>, junk |-> <<>>, bad |-> c, n |-> BufLen] :
        a \in ShortPackets, b \in ShortPackets, c \in CorruptFrames}
Scripts == RepeatScripts \cup ResyncScripts \cup FaultScripts

RECURSIVE EncodeAll(_, _)
EncodeAll(pkts, i) ==
    IF i > Len(pkts) THEN <<>> ELSE encode_buf(pkts[i]) \o EncodeAll(pkts, i + 1)

\* the bytes on the wire of a script
Stream(s) ==
    CASE s.kind = "repeat" -> EncodeAll(s.pkts, 1)
      [] s.kind = "resync" -> s.junk \o <<ZERO>> \o encode_buf(s.pkts[1])
      [] s.kind = "fault" -> encode_buf(s.pkts[1]) \o s.bad \o encode_buf(s.pkts[2])
      [] OTHER -> <<>>

\* the number of bytes of the script fed so far
Fed == Len(Stream(script)) - Len(wire)

InitStream ==
    \E s \in Scripts :
        /\ script = s
        /\ wire = Stream(s)
        /\ dec = Decoder_new(Fill(0, s.n))
        /\ prev = dec
        /\ call = [op |-> "new", byte |-> 0]
        /\ ret = OkNone
        /\ events = 0
        /\ got = <<>>
        /\ NoBuffer

\* the caller feeds the next byte of the stream and notes what came back
StreamFeed ==
    /\ wire # <<>>
    /\ DoDecode(Head(wire))
    /\ wire' = Tail(wire)
    /\ got' = IF ret' = OkNone THEN got ELSE Append(got, [at |-> Fed + 1, ret |-> ret'])
    /\ UNCHANGED <<events, script, pvars>>

NextStream == StreamFeed

SpecStream == InitStream /\ [][NextStream]_vars

(***************************************************************************)
(* A decoder that has been running for a long time: its counters start at  *)
(* 0, one below the largest usize or at the largest usize.  The transport  *)
(* carries a valid and a corrupted frame of each of two packets.           *)
(***************************************************************************)
AgedCounts == {0, USIZE_MAX - 1, USIZE_MAX}
AgedFrames ==
    {encode_buf(PKT_MIN), Corrupt(encode_buf(PKT_MIN), 4, 15),
     encode_buf(PKT_I8), Corrupt(encode_buf(PKT_I8), 8, 1)}

InitAged ==
    \E c \in AgedCounts :
        /\ dec = [Decoder_new(Fill(0, BufLen)) EXCEPT !.valid_pkt_count = c,
                                                     !.invalid_pkt_count = c]
        /\ prev = dec
        /\ call = [op |-> "new", byte |-> 0]
        /\ ret = OkNone
        /\ wire = <<>>
        /\ events = 0
        /\ script = NoScript
        /\ got = <<>>
        /\ NoBuffer

NextAged ==
    \/ \E f \in AgedFrames : Send(f)
    \/ Receive
    \/ \E byte \in NoiseBytes : Noise(byte)
    \/ Reset

SpecAged == InitAged /\ [][NextAged]_vars

(***************************************************************************)
(* Runs on packet buffers: a caller holds a buffer and applies one         *)
(* operation of Packet or Framing to it (Framing::decode_buf to the output *)
(* of Framing::encode_buf, Packet::new also to a buffer in which one bit   *)
(* was flipped).                                                           *)
(***************************************************************************)
\* tests::invalid_msg_id without its last byte: the id is the byte 0x00
PKT_ID0 == <<0, 4, 1, 0, 49, 107>>
\* data_length 2, type U16, internal and response set, acknum 5, id "ab"
PKT_FULL == <<2, 96, 178, 97, 98, 1, 2, 150, 109>>
\* data_length 3, id "a"
PKT_D3 == <<3, 20, 1, 97, 9, 8, 7, 129, 215>>
\* data_length 1, type 6, id "o", payload 7A: with data_length read as 0 the
\* payload byte and the first checksum byte are the checksum of the header and id
PKT_ALIAS == <<1, 24, 1, 111, 122, 192, 214>>

\* the number of bytes that follow a packet in its buffer
MaxTail == 2
\* the length of the raw byte sequences that are enumerated in full
MaxRaw == 3

\* tests::MSG_I8 with the type codes that name no MessageType
UnknownTypePackets ==
    {<<1, 52, 99, 97, 98, 99, 42, 176, 150>>,
     <<1, 56, 99, 97, 98, 99, 42, 83, 157>>,
     <<1, 60, 99, 97, 98, 99, 42, 242, 155>>}
\* the values of the four-bit type field
TypeCodes == 0..15

PacketInputs ==
    Packets \cup {PKT_ID0, PKT_FULL, PKT_D3, PKT_ALIAS} \cup UnknownTypePackets
\* tests::missing_header, missing_checksum, incomplete_payload,
\* invalid_checksum, invalid_msg_id_len, invalid_msg_id, the blank buffers of
\* construct_i8 and construct_f32; a zeroed buffer, and
\* a header with id_length 0 followed by its checksum
TestBuffers ==
    {Fill(255, 2), Fill(255, 4), Fill(255, 7), Fill(255, 9), Fill(255, 12),
     <<4, 44, 3, 255, 255>>,
     <<1, 20, 99, 97, 98, 99, 42, 184, 164>>,
     <<1, 20, 96, 97, 98, 99, 42, 184, 163>>,
     Fill(0, 7), <<0, 4, 0, 88, 0>>}
\* packets, packets cut short, packets followed by further bytes
Buffers ==
    UNION {{SubSeq(q, 1, k) : k \in 0..Len(q)} : q \in PacketInputs}
        \cup {q \o Fill(255, k) : q \in PacketInputs, k \in 0..MaxTail}
        \cup TestBuffers

RECURSIVE SeqsUpTo(_, _)
SeqsUpTo(S, n) ==
    IF n = 0 THEN {<<>>}
    ELSE LET shorter == SeqsUpTo(S, n - 1)
         IN  shorter \cup {Append(q, x) : q \in shorter, x \in S}
\* raw inputs of the framing: short sequences in full, and runs of non-zero
\* bytes around the length of a full block
RawInputs ==
    SeqsUpTo({0, 1, 255}, MaxRaw)
        \cup {Fill(1, n) \o t : n \in {MAX_RUN - 1, MAX_RUN, MAX_RUN + 1, 2 * MAX_RUN},
                                t \in {<<>>, <<0>>, <<0, 7>>}}
        \cup {<<0>> \o Fill(255, MAX_RUN)}

DataLengths == {0, 1, 2, 255, 256, 511, 1023, 1024, 1025, 2047, 65535}
IdLengths == {0, 1, 2, 7, 15, 16, 17, 255}
AckNums == {0, 1, 5, 7, 8, 255}
Accessors ==
    {"data_length", "typ", "internal", "offset", "id_length", "response",
     "acknum", "msg_id", "msg_id_raw", "payload", "checksum",
     "compute_checksum", "wire_size"}

\* what tests::construct_i8, construct_f32 and invalid_msg_id write, and the
\* size of their buffer
RecipeI8 ==
    [size |-> 9, data_length |-> 1, typ |-> "I8", internal |-> FALSE, offset |-> FALSE,
     id_length |-> 3, response |-> FALSE, acknum |-> 3,
     id |-> <<97, 98, 99>>, data |-> <<42>>]
RecipeF32 ==
    [size |-> 12, data_length |-> 4, typ |-> "F32", internal |-> FALSE, offset |-> FALSE,
     id_length |-> 3, response |-> FALSE, acknum |-> 0,
     id |-> <<97, 98, 99>>, data |-> <<20, 174, 41, 66>>]
RecipeId0 ==
    [size |-> 7, data_length |-> 0, typ |-> "Custom", internal |-> FALSE, offset |-> FALSE,
     id_length |-> 1, response |-> FALSE, acknum |-> 0,
     id |-> <<0>>, data |-> <<>>]
Recipes == {RecipeI8, RecipeF32, RecipeId0}

\* b with bit k of the byte at index i inverted
FlipBit(b, i, k) == [b EXCEPT ![i + 1] = BitXor(b[i + 1], Pow2(k))]

Bool(v) == IF v THEN 1 ELSE 0

\* the result of accessor a on buffer b
Get(a, b) ==
    LET Plain(v) == [ok |-> TRUE, err |-> "none", out |-> <<v>>]
        Num(r) == [ok |-> r.ok, err |-> r.err, out |-> <<r.val>>]
        Bytes(r) == [ok |-> r.ok, err |-> r.err, out |-> IF r.ok THEN r.val ELSE <<>>]
    IN  CASE a = "data_length" -> Plain(data_length(b))
          [] a = "typ" -> [ok |-> typ(b).ok, err |-> typ(b).err, out |-> <<typ_raw(b)>>]
          [] a = "internal" -> Plain(Bool(internal(b)))
          [] a = "offset" -> Plain(Bool(offset(b)))
          [] a = "id_length" -> Num(id_length(b))
          [] a = "response" -> Plain(Bool(response(b)))
          [] a = "acknum" -> Plain(acknum(b))
          [] a = "msg_id" -> Bytes(msg_id(b))
          [] a = "msg_id_raw" -> Bytes(msg_id_raw(b))
          [] a = "payload" -> Bytes(payload(b))
          [] a = "checksum" -> Num(checksum(b))
          [] a = "compute_checksum" -> Num(compute_checksum(b))
          [] a = "wire_size" -> Num(wire_size(b))

InitPacket ==
    /\ buf \in Buffers \cup RawInputs
    /\ pre = buf
    /\ op = NoOp
    /\ dec = Decoder_new(Fill(0, BufLen))
    /\ prev = dec
    /\ call = [op |-> "new", byte |-> 0]
    /\ ret = OkNone
    /\ wire = <<>>
    /\ events = 0
    /\ script = NoScript
    /\ got = <<>>

\* the operation name(arg) was applied: it returned r and left the buffer b
Applied(name, arg, r, out, b) ==
    /\ op' = [name |-> name, arg |-> arg, ok |-> r.ok, err |-> r.err, out |-> out]
    /\ buf' = b
    /\ pre' = buf
    /\ UNCHANGED dvars

\* Packet::new(buf), on a buffer as drawn or after a bit of it was flipped
New ==
    /\ op.name \in {"none", "flip"}
    /\ op' = [name |-> "new", arg |-> op.arg, ok |-> Packet_new(buf).ok,
              err |-> Packet_new(buf).err, out |-> <<>>]
    /\ UNCHANGED <<buf, pre, dvars>>

\* a bit of the header, id or payload of an accepted buffer is flipped
Flip ==
    /\ op = NoOp
    /\ Packet_new(buf).ok
    /\ \E i \in 0..(HEADER_SIZE + id_length_raw(buf) + data_length(buf) - 1), k \in 0..7 :
           Applied("flip", <<i, k>>, Ok(0), <<>>, FlipBit(buf, i, k))

\* a setter that can fail: r holds its result and the buffer after it
Fallible(name, value, r) ==
    /\ op = NoOp
    /\ Len(buf) >= HEADER_SIZE
    /\ Applied(name, <<value>>, r, <<>>, r.val)

\* a setter that cannot fail: b is the buffer after it
Infallible(name, value, b) ==
    /\ op = NoOp
    /\ Len(buf) >= HEADER_SIZE
    /\ Applied(name, <<value>>, Ok(0), <<>>, b)

SetDataLength(v) == Fallible("set_data_length", v, set_data_length(buf, v))
SetTyp(t) == Infallible("set_typ", wire_type(t), set_typ(buf, wire_type(t)))
SetInternal(v) == Infallible("set_internal", Bool(v), set_internal(buf, v))
SetOffset(v) == Infallible("set_offset", Bool(v), set_offset(buf, v))
SetIdLength(v) == Fallible("set_id_length", v, set_id_length(buf, v))
SetResponse(v) == Infallible("set_response", Bool(v), set_response(buf, v))
SetAcknum(v) == Infallible("set_acknum", v, set_acknum(buf, v))

\* p.set_checksum(p.compute_checksum().unwrap()): a failed unwrap and an
\* out-of-range slice leave the buffer as it was
Seal ==
    /\ op = NoOp
    /\ Len(buf) >= HEADER_SIZE
    /\ \E crc \in {compute_checksum(buf)} :
           \E r \in {IF crc.ok THEN set_checksum(buf, crc.val) ELSE crc} :
               Applied("set_checksum", <<crc.val>>, r, <<>>,
                       IF r.ok THEN r.val ELSE buf)

\* a test builds a packet in its blank buffer and frames it
Construct(r) ==
    /\ op = NoOp
    /\ buf = Fill(255, r.size)
    /\ \E c \in {construct(buf, r)} :
           Applied("construct", <<r>>, c, IF c.ok THEN encode_buf(c.val) ELSE <<>>,
                   IF c.ok THEN c.val ELSE buf)

\* an accessor is called on a packet that Packet::new returned
Access ==
    /\ op = NoOp
    /\ Packet_new(buf).ok
    /\ \E a \in Accessors : Applied(a, <<>>, Get(a, buf), Get(a, buf).out, buf)

\* Framing::encode_buf(buf)
Encode ==
    /\ op = NoOp
    /\ Applied("encode_buf", <<>>, Ok(0), encode_buf(buf), buf)

\* Framing::decode_buf on the output of encode_buf
Decode ==
    /\ op.name = "encode_buf"
    /\ LET r == decode_buf(op.out)
       IN  /\ op' = [name |-> "decode_buf", arg |-> op.out, ok |-> r.ok,
                     err |-> r.err, out |-> IF r.ok THEN r.val ELSE <<>>]
           /\ UNCHANGED <<buf, pre, dvars>>

NextPacket ==
    \/ New
    \/ Flip
    \/ \E v \in DataLengths : SetDataLength(v)
    \/ \E i \in 1..Len(MessageTypes) : SetTyp(MessageTypes[i])
    \/ \E v \in BOOLEAN : SetInternal(v)
    \/ \E v \in BOOLEAN : SetOffset(v)
    \/ \E v \in IdLengths : SetIdLength(v)
    \/ \E v \in BOOLEAN : SetResponse(v)
    \/ \E v \in AckNums : SetAcknum(v)
    \/ Access
    \/ Seal
    \/ \E r \in Recipes : Construct(r)
    \/ Encode
    \/ Decode

SpecPacket == InitPacket /\ [][NextPacket]_vars

(***************************************************************************)
(* message.rs: MessageType and its wire code, MessageId.  A MessageType is *)
(* a record of its variant and, for Unknown, the code it carries.          *)
(***************************************************************************)
Named(v) == [variant |-> v, typ |-> 0]
Unknown(code) == [variant |-> "Unknown", typ |-> code]

\* impl From<u8> for MessageType
MessageType_from(value) ==
    CASE value = 0 -> Named("Callback")
      [] value = 1 -> Named("Custom")
      [] value = 2 -> Named("OffsetMetadata")
      [] value = 3 -> Named("Byte")
      [] value = 4 -> Named("Char")
      [] value = 5 -> Named("I8")
      [] value = 6 -> Named("U8")
      [] value = 7 -> Named("I16")
      [] value = 8 -> Named("U16")
      [] value = 9 -> Named("I32")
      [] value = 10 -> Named("U32")
      [] value = 11 -> Named("F32")
      [] value = 12 -> Named("F64")
      [] OTHER -> Unknown(value)

\* From<MessageType> for u8 with every Unknown sent to the code 0
u8_from_UnknownIsZero(value) ==
    IF value.variant = "Unknown" THEN 0
    ELSE CHOOSE w \in 0..12 : MessageTypes[w + 1] = value.variant

\* impl From<MessageType> for u8
u8_from(value) ==
    CASE value.variant = "Callback" -> 0
      [] value.variant = "Custom" -> 1
      [] value.variant = "OffsetMetadata" -> 2
      [] value.variant = "Byte" -> 3
      [] value.variant = "Char" -> 4
      [] value.variant = "I8" -> 5
      [] value.variant = "U8" -> 6
      [] value.variant = "I16" -> 7
      [] value.variant = "U16" -> 8
      [] value.variant = "I32" -> 9
      [] value.variant = "U32" -> 10
      [] value.variant = "F32" -> 11
      [] value.variant = "F64" -> 12
      [] value.variant = "Unknown" -> value.typ

\* MessageId::as_bytes and MessageId::len of the identity MessageId::new gave
as_bytes(id) == id
len(id) == Len(id)

(***************************************************************************)
(* The conversions of message.rs on their inputs: buf holds the bytes      *)
(* given to MessageId::new; the type conversions take no buffer.           *)
(***************************************************************************)
DefinedTypes == {Named(MessageTypes[i]) : i \in 1..Len(MessageTypes)}
TypeInputs == DefinedTypes \cup {Unknown(c) : c \in Byte}
\* tests::invalid_ids, tests::internal_ids, and short sequences in full
IdInputs ==
    SeqsUpTo({0, 1, 255}, MaxRaw)
        \cup {Fill(1, MAX_MSG_ID_SIZE - 1), Fill(1, MAX_MSG_ID_SIZE),
              Fill(1, MAX_MSG_ID_SIZE + 1), Fill(0, MAX_MSG_ID_SIZE),
              Fill(0, MAX_MSG_ID_SIZE + 1), <<110, 97, 109, 101>>}

InitMessage ==
    /\ buf \in IdInputs
    /\ pre = buf
    /\ op = NoOp
    /\ dec = Decoder_new(Fill(0, BufLen))
    /\ prev = dec
    /\ call = [op |-> "new", byte |-> 0]
    /\ ret = OkNone
    /\ wire = <<>>
    /\ events = 0
    /\ script = NoScript
    /\ got = <<>>

\* a conversion of x gave y
Converted(name, x, y) ==
    /\ op' = [name |-> name, arg |-> <<x>>, ok |-> TRUE, err |-> "none", out |-> <<y>>]
    /\ UNCHANGED <<buf, pre, dvars>>

\* MessageType::from(code)
TypeFromCode(code) ==
    /\ op = NoOp
    /\ buf = <<>>
    /\ Converted("MessageType::from", code, MessageType_from(code))

\* u8::from(t)
CodeFromType(t) ==
    /\ op = NoOp
    /\ buf = <<>>
    /\ Converted("u8::from", t, u8_from(t))

\* the code that MessageType::from(code) gave is converted back
CodeBack ==
    /\ op.name = "MessageType::from"
    /\ Converted("u8::from(MessageType::from)", op.arg[1], u8_from(op.out[1]))

\* tests::round_trip_message_type: the code of a type is converted back
TypeBack ==
    /\ op.name = "u8::from"
    /\ Converted("MessageType::from(u8::from)", op.arg[1], MessageType_from(op.out[1]))

\* MessageId::new(buf), then as_bytes() and len() of the identity
NewId ==
    /\ op = NoOp
    /\ \E id \in {MessageId_new(buf)} :
           /\ op' = [name |-> "MessageId::new", arg |-> <<>>, ok |-> id.ok,
                     err |-> id.err,
                     out |-> IF id.ok THEN <<as_bytes(id.val), len(id.val)>> ELSE <<>>]
           /\ UNCHANGED <<buf, pre, dvars>>

NextMessage ==
    \/ \E code \in Byte : TypeFromCode(code)
    \/ \E t \in TypeInputs : CodeFromType(t)
    \/ CodeBack
    \/ TypeBack
    \/ NewId

SpecMessage == InitMessage /\ [][NextMessage]_vars

(***************************************************************************)
(* The caller keeps a log of what decode returned: got holds every return  *)
(* other than Ok(None).  The frames include packets with the offset flag.  *)
(***************************************************************************)
\* the size of the decoder's buffer in the logged runs
LogLen == 10
\* the offset flag set, id "a", two bytes 01 02 after the id, no payload, and
\* the checksum of all bytes before it
PKT_OFF0 == <<0, 132, 1, 97, 1, 2, 90, 108>>
\* the offset flag set, id "a", payload 07 08 09 and its checksum right after
\* the id, as Packet::new reads a packet, and two more bytes
PKT_OFF3 == <<3, 132, 1, 97, 7, 8, 9, 234, 227, 1, 2>>

LogPackets == {PKT_MIN, PKT_I8, PKT_OFF, PKT_OFF0, PKT_OFF3}
\* a payload byte of MSG_I8 altered, and the id_length of the smallest packet
\* turned to 0
LogFaults == {<<PKT_I8, 8, 1>>, <<PKT_MIN, 4, 15>>}
LogFrames ==
    {encode_buf(p) : p \in LogPackets}
        \cup {Corrupt(encode_buf(c[1]), c[2], c[3]) : c \in LogFaults}

InitLog ==
    /\ dec = Decoder_new(Fill(0, LogLen))
    /\ prev = dec
    /\ call = [op |-> "new", byte |-> 0]
    /\ ret = OkNone
    /\ wire = <<>>
    /\ events = 0
    /\ script = NoScript
    /\ got = <<>>
    /\ NoBuffer

\* a call of decode(byte), its return noted unless it is Ok(None)
LogDecode(byte) ==
    /\ DoDecode(byte)
    /\ got' = IF ret' = OkNone THEN got
              ELSE Append(got, [at |-> Len(got) + 1, ret |-> ret'])

LogSend(f) ==
    /\ wire = <<>>
    /\ events < MaxEvents
    /\ events' = events + 1
    /\ wire' = f
    /\ UNCHANGED <<dec, prev, call, ret, script, got, pvars>>

LogReceive ==
    /\ wire # <<>>
    /\ LogDecode(Head(wire))
    /\ wire' = Tail(wire)
    /\ UNCHANGED <<events, script, pvars>>

LogNoise(byte) ==
    /\ events < MaxEvents
    /\ events' = events + 1
    /\ LogDecode(byte)
    /\ UNCHANGED <<wire, script, pvars>>

LogReset ==
    /\ events < MaxEvents
    /\ events' = events + 1
    /\ dec' = reset(dec)
    /\ prev' = dec
    /\ call' = [op |-> "reset", byte |-> 0]
    /\ ret' = OkNone
    /\ UNCHANGED <<wire, script, got, pvars>>

NextLog ==
    \/ \E f \in LogFrames : LogSend(f)
    \/ LogReceive
    \/ \E byte \in NoiseBytes : LogNoise(byte)
    \/ LogReset

SpecLog == InitLog /\ [][NextLog]_vars

\* the caller's loop `for byte in bytes { dec.decode(byte) }` from index i on:
\* the decoder after it and what each call returned
RECURSIVE decode_all(_, _, _, _)
decode_all(d, bytes, i, rets) ==
    IF i > Len(bytes) \/ d.state \notin States THEN [dec |-> d, rets |-> rets]
    ELSE LET o == decode(d, bytes[i])
         IN  decode_all(o.dec, bytes, i + 1, Append(rets, o.ret))

\* the returns of a frame that yields packet p on its last byte before the
\* delimiter and nothing on the other bytes
YieldsOnly(frame, p) ==
    [i \in 1..Len(frame) |-> IF i = Len(frame) - 1 THEN OkPacket(p) ELSE OkNone]

TypeOK ==
    /\ dec.state \in States
    /\ dec.frame_offset \in Byte
    /\ dec.bytes_read \in 0..Len(dec.packet_storage)
    /\ Len(dec.packet_storage) = BufLen

(***************************************************************************)
(* C1.  For every packet p with the offset flag clear that Packet::new     *)
(* accepts, feeding encode_buf(p) byte by byte to a fresh Decoder with a   *)
(* buffer of at least len(p) bytes yields exactly one packet, on the last  *)
(* byte before the delimiter, with the bytes of p, the bytes decode_buf    *)
(* gives for the same frame.                                               *)
(***************************************************************************)
C1_DecoderRoundTrip ==
    (script.kind = "repeat" /\ Len(script.pkts) = 1 /\ wire = <<>>) =>
        LET p == script.pkts[1]
            frame == encode_buf(p)
        IN  (Packet_new(p).ok /\ ~offset(p) /\ script.n >= Len(p)) =>
                /\ decode_buf(frame) = Ok(p)
                /\ got = <<[at |-> Len(frame) - 1, ret |-> OkPacket(p)]>>

(***************************************************************************)
(* C2.  A valid frame fed N times yields N packets: in each repetition     *)
(* decode returns Ok(None) up to the byte that completes the second        *)
(* checksum byte and the packet on that byte; count() is the number of     *)
(* repetitions completed and invalid_count() stays 0.                      *)
(***************************************************************************)
C2_RepeatedFrameYieldsEachTime ==
    script.kind = "repeat" =>
        LET p == script.pkts[1]
            L == Len(encode_buf(p))
            done == (Fed + 1) \div L
        IN  /\ got = [k \in 1..done |-> [at |-> k * L - 1, ret |-> OkPacket(p)]]
            /\ count(dec) = done
            /\ invalid_count(dec) = 0

(***************************************************************************)
(* C3.  Whatever was fed before, with no reset() call, the delimiter       *)
(* followed by a valid frame that fits in the buffer yields that frame's   *)
(* packet.                                                                 *)
(***************************************************************************)
C3_ResyncOnDelimiter ==
    (script.kind = "resync" /\ wire = <<>>) =>
        LET p == script.pkts[1]
            after == SelectSeq(got, LAMBDA g : g.at > Len(script.junk) + 1)
        IN  (Packet_new(p).ok /\ script.n >= Len(p)) =>
                after = <<[at |-> Len(Stream(script)) - 1, ret |-> OkPacket(p)]>>

(***************************************************************************)
(* C4.  A corrupted frame between two valid frames raises invalid_count()  *)
(* by exactly one over the whole sequence, whatever bytes were corrupted.  *)
(***************************************************************************)
C4_CorruptedFrameCountedOnce ==
    (script.kind = "fault" /\ wire = <<>>) => invalid_count(dec) = 1

(***************************************************************************)
(* C5.  As claimed: every decode call progresses the state machine (a new  *)
(* state or a moved cursor) or resets it to FrameOffset with cursor 0.     *)
(***************************************************************************)
Progressed == dec.state # prev.state \/ dec.bytes_read # prev.bytes_read
WasReset == dec.state = "FrameOffset" /\ dec.bytes_read = 0

C5_EveryCallProgressesOrResets ==
    call.op = "decode" => Progressed \/ WasReset

\* C5 as amended: a decode call that does not return InsufficientBufferSize
\* progresses the state machine or resets it to FrameOffset with cursor 0; a
\* call that returns InsufficientBufferSize leaves state and cursor as they
\* were, the cursor at the end of the buffer.
C5_ProgressesResetsOrOverflows ==
    call.op = "decode" =>
        IF ret = InsufficientBufferSize
        THEN /\ dec.state = prev.state
             /\ dec.bytes_read = prev.bytes_read
             /\ dec.bytes_read = Len(dec.packet_storage)
             /\ dec.state # "FrameOffset"
        ELSE Progressed \/ WasReset

\* a call that found the buffer full and one that stayed in MsgId with the
\* cursor advanced
C5_Witness ==
    /\ call.op = "decode"
    /\ ret = InsufficientBufferSize
    /\ dec.state = prev.state
    /\ dec.state = "Payload"

(***************************************************************************)
(* C6.  Whenever decode returns a packet, its bytes pass the checks of     *)
(* Packet::new: at least 5 bytes, id_length in 1..15, length at least      *)
(* 5 + id_length + data_length, and the two bytes after the payload are    *)
(* the CRC of header, id and payload.                                      *)
(***************************************************************************)
PassesChecks(b) ==
    /\ Len(b) >= HEADER_SIZE + CHECKSUM_SIZE
    /\ id_length_raw(b) \in 1..MAX_MSG_ID_SIZE
    /\ Len(b) >= 5 + id_length_raw(b) + data_length(b)
    /\ LET end == 3 + id_length_raw(b) + data_length(b)
       IN  read_u16(b, end) = crc_checksum(SubSeq(b, 1, end))

C6_YieldedPacketsAreValid ==
    ret.kind = "OkPacket" =>
        /\ PassesChecks(ret.bytes)
        /\ ret.bytes = SubSeq(dec.packet_storage, 1, Len(ret.bytes))

C6_Witness ==
    /\ call.op = "decode"
    /\ ret.kind = "OkPacket"
    /\ ret.bytes = PKT_I8

(***************************************************************************)
(* C7.  In every decoder state decode(0x00) returns Ok(None), leaves the   *)
(* decoder in FrameOffset with frame_offset 0 and cursor 0, and changes    *)
(* neither count() nor invalid_count().                                    *)
(***************************************************************************)
C7_DelimiterAbortsUncounted ==
    \A o \in {decode(dec, 0)} :
        /\ o.ret = OkNone
        /\ o.dec.state = "FrameOffset"
        /\ o.dec.frame_offset = 0
        /\ o.dec.bytes_read = 0
        /\ count(o.dec) = count(dec)
        /\ invalid_count(o.dec) = invalid_count(dec)

\* a delimiter that arrived in the middle of a frame, after packets were counted
C7_Witness ==
    /\ call = [op |-> "decode", byte |-> 0]
    /\ prev.state = "Payload"
    /\ prev.bytes_read > 0
    /\ prev.frame_offset > 0
    /\ count(prev) > 0
    /\ invalid_count(prev) > 0
    /\ dec.state = "FrameOffset"
    /\ invalid_count(dec) = invalid_count(prev)

(***************************************************************************)
(* C8.  When decode accepts the byte of the second checksum byte it        *)
(* returns the packet with count() one higher and invalid_count()          *)
(* unchanged, or the error of Packet::new with invalid_count() one higher  *)
(* and count() unchanged; either way the decoder is in FrameOffset with    *)
(* cursor 0 and frame_offset 0, and a frame fed next is decoded without a  *)
(* reset() call.                                                           *)
(***************************************************************************)
C8_FrameCompletion ==
    (call.op = "decode" /\ call.byte # 0 /\ prev.state = "CrcB1"
        /\ ret # InsufficientBufferSize) =>
        /\ dec.state = "FrameOffset"
        /\ dec.bytes_read = 0
        /\ dec.frame_offset = 0
        /\ \/ /\ ret.kind = "OkPacket"
              /\ Len(ret.bytes) = prev.bytes_read + 1
              /\ count(dec) = count(prev) + 1
              /\ invalid_count(dec) = invalid_count(prev)
           \/ /\ ret.kind = "PacketError"
              /\ ret.err = Packet_new(SubSeq(dec.packet_storage, 1, prev.bytes_read + 1)).err
              /\ invalid_count(dec) = invalid_count(prev) + 1
              /\ count(dec) = count(prev)
        /\ LET frame == encode_buf(PKT_MIN)
           IN  decode_all(dec, frame, 1, <<>>).rets = YieldsOnly(frame, PKT_MIN)

\* a frame completed with an error right after one completed with a packet
C8_Witness ==
    /\ call.op = "decode"
    /\ prev.state = "CrcB1"
    /\ ret = PacketError("InvalidChecksum")
    /\ count(dec) = 1
    /\ invalid_count(dec) = 1

(***************************************************************************)
(* C9.  The cursor never passes the end of the caller's buffer, and decode *)
(* returns InsufficientBufferSize exactly when a reconstructed byte is to  *)
(* be stored (a non-zero input in a state other than FrameOffset) while    *)
(* the cursor is at the end of the buffer; buffer and cursor are then left *)
(* as they were.                                                           *)
(***************************************************************************)
C9_NeverWritesOutside ==
    /\ dec.bytes_read <= Len(dec.packet_storage)
    /\ Len(dec.packet_storage) = Len(prev.packet_storage)
    /\ call.op = "decode" =>
        /\ ret = InsufficientBufferSize <=>
              /\ call.byte # 0
              /\ prev.state # "FrameOffset"
              /\ prev.bytes_read = Len(prev.packet_storage)
        /\ ret = InsufficientBufferSize =>
              /\ dec.packet_storage = prev.packet_storage
              /\ dec.bytes_read = prev.bytes_read

C9_Witness ==
    /\ call.op = "decode"
    /\ ret = InsufficientBufferSize
    /\ prev.bytes_read = Len(prev.packet_storage)
    /\ dec.packet_storage = prev.packet_storage

(***************************************************************************)
(* C10.  reset(), in any decoder state, sets the state to FrameOffset and  *)
(* the cursor and frame_offset to 0 and leaves count() and invalid_count() *)
(* as they were.                                                           *)
(***************************************************************************)
C10_ResetEffect ==
    /\ \A d \in {reset(dec)} :
           /\ d.state = "FrameOffset"
           /\ d.bytes_read = 0
           /\ d.frame_offset = 0
           /\ count(d) = count(dec)
           /\ invalid_count(d) = invalid_count(dec)
    /\ call.op = "reset" =>
           /\ dec.state = "FrameOffset"
           /\ dec.bytes_read = 0
           /\ dec.frame_offset = 0
           /\ count(dec) = count(prev)
           /\ invalid_count(dec) = invalid_count(prev)

\* a reset in the middle of a frame, after a packet was counted
C10_Witness ==
    /\ call.op = "reset"
    /\ prev.state = "MsgId"
    /\ prev.bytes_read > 0
    /\ prev.frame_offset > 0
    /\ count(prev) > 0
    /\ count(dec) = count(prev)

(***************************************************************************)
(* C11.  Over any sequence of decode and reset calls count() and           *)
(* invalid_count() never decrease, each changes by at most one per call,   *)
(* and a counter at the largest usize stays there instead of wrapping to 0.*)
(***************************************************************************)
StepOf(after, before) ==
    /\ after >= before
    /\ after - before <= 1
    /\ before = USIZE_MAX => after = USIZE_MAX

C11_CountersSaturate ==
    /\ StepOf(count(dec), count(prev))
    /\ StepOf(invalid_count(dec), invalid_count(prev))
    /\ call.op = "reset" =>
           count(dec) = count(prev) /\ invalid_count(dec) = invalid_count(prev)

\* a packet yielded with count() already at the largest usize
C11_Witness ==
    /\ call.op = "decode"
    /\ ret.kind = "OkPacket"
    /\ count(prev) = USIZE_MAX
    /\ count(dec) = USIZE_MAX

(***************************************************************************)
(* C12.  Packet::new applies its checks in a fixed order and returns the   *)
(* first failure: MissingHeader iff the buffer has fewer than 3 bytes;     *)
(* otherwise MissingChecksum iff it has fewer than 5; otherwise            *)
(* InvalidMessageIdLength iff the id_length field is 0; otherwise          *)
(* IncompletePayload iff the length is below 5 + id_length + data_length;  *)
(* otherwise InvalidChecksum iff the stored checksum differs from the      *)
(* computed one; otherwise it succeeds.                                    *)
(***************************************************************************)
\* the low four bits of the third header byte
IdField(b) == b[3] % 16
\* the ten bits of the first two header bytes
DataField(b) == b[1] + 256 * (b[2] % 4)
StoredCrc(b) ==
    LET at == 3 + IdField(b) + DataField(b)
    IN  b[at + 1] + 256 * b[at + 2]
FirstFailure(b) ==
    IF Len(b) < 3 THEN "MissingHeader"
    ELSE IF Len(b) < 5 THEN "MissingChecksum"
    ELSE IF IdField(b) = 0 THEN "InvalidMessageIdLength"
    ELSE IF Len(b) < 5 + IdField(b) + DataField(b) THEN "IncompletePayload"
    ELSE IF StoredCrc(b) # crc_checksum(SubSeq(b, 1, 3 + IdField(b) + DataField(b)))
         THEN "InvalidChecksum"
    ELSE "none"

C12_NewReturnsFirstFailure ==
    op.name = "new" =>
        /\ op.err = FirstFailure(buf)
        /\ op.ok <=> FirstFailure(buf) = "none"

\* Packet::new gave InvalidChecksum on a buffer that passes the checks before
C12_Witness ==
    /\ op.name = "new"
    /\ op.err = "InvalidChecksum"
    /\ Len(buf) >= 5 + IdField(buf) + DataField(buf)
    /\ IdField(buf) # 0

(***************************************************************************)
(* C13.  As stated: every packet accepted by Packet::new has id_length in  *)
(* 1..=15, id bytes on which MessageId::new succeeds, a buffer of at least *)
(* 3 + id_length + data_length + 2 bytes, and a stored checksum equal to   *)
(* the CRC over all preceding bytes.  Packet::new does not look at the id  *)
(* bytes: a packet whose id is the single byte 0x00 is accepted.           *)
(***************************************************************************)
Accepted == op.name = "new" /\ op.ok

StructurallySound(b) ==
    /\ IdField(b) \in 1..MAX_MSG_ID_SIZE
    /\ Len(b) >= 3 + IdField(b) + DataField(b) + 2
    /\ StoredCrc(b) = crc_checksum(SubSeq(b, 1, 3 + IdField(b) + DataField(b)))

IdBytes(b) == SubSeq(b, 4, 3 + IdField(b))

C13_AcceptedHasValidIdentity ==
    Accepted => StructurallySound(buf) /\ MessageId_new(IdBytes(buf)).ok

\* C13, amended: every packet accepted by Packet::new has id_length in
\* 1..=15, a buffer of at least 3 + id_length + data_length + 2 bytes and a
\* stored checksum equal to the CRC over all preceding bytes; the id bytes
\* are validated by msg_id(), which succeeds iff MessageId::new does
C13_AcceptedIsStructurallySound ==
    Accepted =>
        /\ StructurallySound(buf)
        /\ msg_id(buf).ok <=> MessageId_new(IdBytes(buf)).ok

\* an accepted packet with two id bytes, a payload and bytes after it
C13_Witness ==
    /\ Accepted
    /\ IdField(buf) = 2
    /\ DataField(buf) = 2
    /\ Len(buf) > 3 + IdField(buf) + DataField(buf) + 2

(***************************************************************************)
(* C14.  A structurally complete buffer with a correct checksum whose      *)
(* message id is the single byte 0x00 is accepted by Packet::new, and      *)
(* msg_id() on the resulting packet fails with InvalidMessageId.           *)
(***************************************************************************)
HasZeroId(b) ==
    /\ Len(b) >= 3
    /\ IdField(b) = 1
    /\ Len(b) >= 5 + IdField(b) + DataField(b)
    /\ b[4] = 0
    /\ StoredCrc(b) = crc_checksum(SubSeq(b, 1, 3 + IdField(b) + DataField(b)))

C14_ZeroIdAcceptedThenRejected ==
    /\ (op.name = "new" /\ HasZeroId(buf)) => op.ok
    /\ (op.name = "msg_id" /\ HasZeroId(buf)) =>
           ~op.ok /\ op.err = "InvalidMessageId"

\* msg_id() was called on the accepted packet of tests::invalid_msg_id
C14_Witness ==
    /\ op.name = "msg_id"
    /\ HasZeroId(buf)
    /\ Packet_new(buf).ok
    /\ op.err = "InvalidMessageId"

(***************************************************************************)
(* C15.  As stated: flipping any single bit in the header, id or payload   *)
(* of a buffer accepted by Packet::new, the stored checksum bytes left     *)
(* unchanged, makes Packet::new fail with InvalidChecksum and with no      *)
(* other error, for every bit position including the data_length and       *)
(* id_length bits.  A flipped length bit is seen by the checks that run    *)
(* before the checksum, and moves the place the checksum is read from.     *)
(***************************************************************************)
\* Packet::new was applied to buf, which is pre with one bit flipped
Flipped == op.name = "new" /\ Len(op.arg) = 2

C15_AnyFlipIsInvalidChecksum ==
    Flipped => ~op.ok /\ op.err = "InvalidChecksum"

SameLengths == IdField(buf) = IdField(pre) /\ DataField(buf) = DataField(pre)

\* C15, amended: a flipped bit outside the data_length and id_length fields
\* makes Packet::new fail with InvalidChecksum.  A flipped bit of these
\* fields gives InvalidMessageIdLength when id_length becomes 0, otherwise
\* IncompletePayload when the buffer is shorter than the new lengths ask
\* for, otherwise the checksum is read at its new place: InvalidChecksum, or
\* success when the two bytes there are the CRC of the bytes before them
C15_FlipIsRejectedByFirstCheck ==
    Flipped =>
        /\ SameLengths => ~op.ok /\ op.err = "InvalidChecksum"
        /\ ~SameLengths =>
               IF IdField(buf) = 0 THEN op.err = "InvalidMessageIdLength"
               ELSE IF Len(buf) < 5 + IdField(buf) + DataField(buf)
                    THEN op.err = "IncompletePayload"
               ELSE IF StoredCrc(buf) =
                           crc_checksum(SubSeq(buf, 1, 3 + IdField(buf) + DataField(buf)))
                    THEN op.ok
               ELSE op.err = "InvalidChecksum"

\* a payload bit of an accepted packet was flipped and Packet::new refused it
C15_Witness ==
    /\ Flipped
    /\ SameLengths
    /\ op.arg[1] >= 3 + IdField(pre)
    /\ Packet_new(pre).ok
    /\ op.err = "InvalidChecksum"

(***************************************************************************)
(* C16.  Each header setter changes only the bits of its own field: after  *)
(* any successful setter call every other header field's getter returns    *)
(* the value it returned before the call, and all bytes outside the three  *)
(* header bytes are unchanged.                                             *)
(***************************************************************************)
Setters ==
    {"set_data_length", "set_typ", "set_internal", "set_offset",
     "set_id_length", "set_response", "set_acknum"}
\* the header fields of b as the getters read them, by the name of their setter
Fields(b) ==
    [set_data_length |-> data_length(b),
     set_typ |-> typ_raw(b),
     set_internal |-> internal(b),
     set_offset |-> offset(b),
     set_id_length |-> id_length_raw(b),
     set_response |-> response(b),
     set_acknum |-> acknum(b)]

SetterSucceeded == op.name \in Setters /\ op.ok

C16_SettersKeepSiblingFields ==
    SetterSucceeded =>
        /\ \A f \in Setters \ {op.name} : Fields(buf)[f] = Fields(pre)[f]
        /\ Len(buf) = Len(pre)
        /\ SubSeq(buf, HEADER_SIZE + 1, Len(buf)) = SubSeq(pre, HEADER_SIZE + 1, Len(pre))

(***************************************************************************)
(* C17.  For every valid field value (data_length in 0..=1024, id_length   *)
(* in 1..=15, acknum in 0..=7, every defined Message Type, either value of *)
(* the internal, offset and response flags), after the corresponding       *)
(* setter succeeds the corresponding getter returns exactly the value      *)
(* that was written.                                                       *)
(***************************************************************************)
\* the values the claim calls valid, by setter; flags and types as numbers
ValidValues ==
    [set_data_length |-> 0..MAX_PAYLOAD_SIZE,
     set_typ |-> {wire_type(MessageTypes[i]) : i \in 1..Len(MessageTypes)},
     set_internal |-> {0, 1},
     set_offset |-> {0, 1},
     set_id_length |-> 1..MAX_MSG_ID_SIZE,
     set_response |-> {0, 1},
     set_acknum |-> 0..7]
\* what the getter of the field returns on b, as a number; -1 for an error
Read(f, b) ==
    CASE f = "set_data_length" -> data_length(b)
      [] f = "set_typ" -> IF typ(b).ok THEN wire_type(typ(b).val) ELSE -1
      [] f = "set_internal" -> Bool(internal(b))
      [] f = "set_offset" -> Bool(offset(b))
      [] f = "set_id_length" -> IF id_length(b).ok THEN id_length(b).val ELSE -1
      [] f = "set_response" -> Bool(response(b))
      [] f = "set_acknum" -> acknum(b)

C17_GetterReturnsWrittenValue ==
    (SetterSucceeded /\ op.arg[1] \in ValidValues[op.name]) =>
        Read(op.name, buf) = op.arg[1]

(***************************************************************************)
(* C18.  set_data_length(v) fails with InvalidDataLength for every         *)
(* v > 1024 and set_id_length(v) fails with InvalidMessageIdLength for     *)
(* v = 0 and for every v > 15; a setter that fails leaves the buffer       *)
(* byte-for-byte unchanged.                                                *)
(***************************************************************************)
C18_InvalidValuesRefused ==
    /\ (op.name = "set_data_length" /\ op.arg[1] > 1024) =>
           ~op.ok /\ op.err = "InvalidDataLength"
    /\ (op.name = "set_id_length" /\ (op.arg[1] = 0 \/ op.arg[1] > 15)) =>
           ~op.ok /\ op.err = "InvalidMessageIdLength"
    /\ (op.name \in Setters /\ ~op.ok) => buf = pre

\* set_data_length(1025) was refused on a packet with header bits set
C18_Witness ==
    /\ op.name = "set_data_length"
    /\ op.arg = <<1025>>
    /\ op.err = "InvalidDataLength"
    /\ pre = PKT_FULL

(***************************************************************************)
(* C19.  For any buffer accepted by Packet::new, every accessor reads only *)
(* indices inside the buffer: no accessor panics, msg_id_raw() is bytes    *)
(* [3, 3 + id_length), payload() is bytes [3 + id_length,                  *)
(* 3 + id_length + data_length) and checksum() reads the two bytes after   *)
(* that, all below the buffer length.  Packet::new itself, which calls     *)
(* checksum() and compute_checksum(), panics on no buffer.                 *)
(***************************************************************************)
C19_AccessorsStayInside ==
    /\ op.name = "new" => op.err # "panic"
    /\ op.name \in Accessors =>
           LET id == IdField(buf)
               dl == DataField(buf)
           IN  /\ op.err # "panic"
               /\ HEADER_SIZE <= Len(buf)
               /\ 3 + id + dl + 2 <= Len(buf)
               /\ op.name = "msg_id_raw" => op.ok /\ op.out = SubSeq(buf, 4, 3 + id)
               /\ op.name = "payload" =>
                      op.ok /\ op.out = SubSeq(buf, 4 + id, 3 + id + dl)
               /\ op.name = "checksum" =>
                      op.ok /\ op.out = <<buf[3 + id + dl + 1] + 256 * buf[3 + id + dl + 2]>>
               /\ op.name = "compute_checksum" =>
                      op.ok /\ op.out = <<crc_checksum(SubSeq(buf, 1, 3 + id + dl))>>
               /\ op.name = "wire_size" => op.ok /\ op.out = <<3 + id + dl + 2>>

\* payload() was called on an accepted packet that ends with its buffer
C19_Witness ==
    /\ op.name = "payload"
    /\ op.ok
    /\ Len(op.out) = 3
    /\ Len(buf) = 3 + IdField(buf) + DataField(buf) + 2

(***************************************************************************)
(* C20.  For every raw byte sequence, the output of Framing::encode_buf    *)
(* contains the delimiter 0x00 only as its last byte, and                  *)
(* Framing::decode_buf applied to that output returns the original byte    *)
(* sequence with the original length.                                      *)
(***************************************************************************)
C20_FramingRoundTrip ==
    /\ op.name = "encode_buf" =>
           /\ Len(op.out) >= 2
           /\ Len(op.out) <= max_encoded_len(Len(buf))
           /\ \A k \in 1..Len(op.out) :
                  /\ op.out[k] \in Byte
                  /\ op.out[k] = ZERO <=> k = Len(op.out)
    /\ op.name = "decode_buf" =>
           /\ op.arg = encode_buf(buf)
           /\ op.ok
           /\ op.out = buf
           /\ Len(op.out) = Len(buf)

\* a full block of 254 non-zero bytes, a zero and a further byte came back
C20_Witness ==
    /\ op.name = "decode_buf"
    /\ op.ok
    /\ Len(buf) = MAX_RUN + 2
    /\ buf[MAX_RUN + 1] = ZERO
    /\ op.out = buf

(***************************************************************************)
(* C21.  Building a packet with the setters (data_length 1, type Int8,     *)
(* internal/offset/response false, id_length 3, acknum 3, id "abc",        *)
(* payload 0x2A) gives compute_checksum() == 0xA3B8 and the packet bytes   *)
(* 01 14 63 61 62 63 2A B8 A3, whose framed encoding is exactly            *)
(* 0A 01 14 63 61 62 63 2A B8 A3 00; de-framing and parsing those bytes    *)
(* with Packet::new returns the same field values.                         *)
(***************************************************************************)
C21_ConstructI8 ==
    (op.name = "construct" /\ op.arg = <<RecipeI8>>) =>
        /\ op.ok
        /\ buf = <<1, 20, 99, 97, 98, 99, 42, 184, 163>>
        /\ compute_checksum(buf) = Ok(41912)
        /\ op.out = <<10, 1, 20, 99, 97, 98, 99, 42, 184, 163, 0>>
        /\ \A d \in {decode_buf(op.out)} :
               /\ d.ok
               /\ Len(d.val) = 9
               /\ Packet_new(d.val).ok
               /\ data_length(d.val) = 1
               /\ typ(d.val) = Ok("I8")
               /\ ~internal(d.val) /\ ~offset(d.val) /\ ~response(d.val)
               /\ id_length(d.val) = Ok(3)
               /\ acknum(d.val) = 3
               /\ msg_id(d.val) = Ok(<<97, 98, 99>>)
               /\ payload(d.val) = Ok(<<42>>)
               /\ checksum(d.val) = Ok(41912)
               /\ wire_size(d.val) = Ok(9)

\* tests::construct_i8 has run on its nine-byte buffer
C21_Witness ==
    /\ op.name = "construct"
    /\ op.arg = <<RecipeI8>>
    /\ pre = Fill(255, 9)
    /\ op.ok
    /\ buf = PKT_I8

(***************************************************************************)
(* C22.  For every defined Message Type, converting to its wire code       *)
(* (u8::from) and back (MessageType::from) yields the original variant;    *)
(* for every code outside 0..=12, conversion from the code yields          *)
(* Unknown(code) and converting that back yields the same code.            *)
(***************************************************************************)
C22_TypeCodeRoundTrip ==
    /\ (op.name = "MessageType::from(u8::from)" /\ op.arg[1] \in DefinedTypes) =>
           op.out = op.arg
    /\ (op.name = "MessageType::from" /\ op.arg[1] \notin 0..12) =>
           /\ op.out[1].variant = "Unknown"
           /\ op.out[1].typ = op.arg[1]
    /\ (op.name = "u8::from(MessageType::from)" /\ op.arg[1] \notin 0..12) =>
           op.out = op.arg

\* the code 13, the first outside the defined range, came back from Unknown(13)
C22_Witness ==
    /\ op.name = "u8::from(MessageType::from)"
    /\ op.arg = <<13>>
    /\ op.out = <<13>>

(***************************************************************************)
(* C23.  MessageId::new(bytes) returns no identity exactly when bytes is   *)
(* empty, longer than 15 bytes, or is the single byte 0x00; for every      *)
(* other byte sequence it returns an identity whose as_bytes() and len()   *)
(* equal the input bytes and their length.                                 *)
(***************************************************************************)
C23_IdentityConstruction ==
    op.name = "MessageId::new" =>
        /\ ~op.ok <=> (buf = <<>> \/ Len(buf) > 15 \/ buf = <<0>>)
        /\ op.ok => op.out = <<buf, Len(buf)>>

\* an identity of 15 bytes was built
C23_Witness ==
    /\ op.name = "MessageId::new"
    /\ op.ok
    /\ Len(buf) = 15
    /\ op.out[2] = 15

(***************************************************************************)
(* C24.  Every state change made by decode is one of the edges             *)
(* FrameOffset->HeaderB0, HeaderB0->HeaderB1, HeaderB1->HeaderB2,          *)
(* HeaderB2->MsgId, MsgId->MsgId, MsgId->OffsetB0 (only when the offset    *)
(* flag was set), MsgId->Payload, MsgId->CrcB0, OffsetB0->OffsetB1,        *)
(* OffsetB1->Payload, Payload->Payload, Payload->CrcB0, CrcB0->CrcB1,      *)
(* CrcB1->FrameOffset, or a return to FrameOffset on a delimiter; within   *)
(* one frame no state is skipped and no earlier state is re-entered.       *)
(***************************************************************************)
Edges ==
    {<<"FrameOffset", "HeaderB0">>, <<"HeaderB0", "HeaderB1">>,
     <<"HeaderB1", "HeaderB2">>, <<"HeaderB2", "MsgId">>, <<"MsgId", "MsgId">>,
     <<"MsgId", "OffsetB0">>, <<"MsgId", "Payload">>, <<"MsgId", "CrcB0">>,
     <<"OffsetB0", "OffsetB1">>, <<"OffsetB1", "Payload">>,
     <<"Payload", "Payload">>, <<"Payload", "CrcB0">>, <<"CrcB0", "CrcB1">>,
     <<"CrcB1", "FrameOffset">>}
\* the place of a state in the order of a frame
Rank(s) ==
    CASE s = "FrameOffset" -> 0
      [] s = "HeaderB0" -> 1
      [] s = "HeaderB1" -> 2
      [] s = "HeaderB2" -> 3
      [] s = "MsgId" -> 4
      [] s = "OffsetB0" -> 5
      [] s = "OffsetB1" -> 6
      [] s = "Payload" -> 7
      [] s = "CrcB0" -> 8
      [] s = "CrcB1" -> 9

C24_OnlyListedEdges ==
    call.op = "decode" =>
        IF call.byte = 0 THEN dec.state = "FrameOffset"
        ELSE IF ret = InsufficientBufferSize THEN dec.state = prev.state
        ELSE /\ <<prev.state, dec.state>> \in Edges
             /\ dec.state = "OffsetB0" => prev.offset
             /\ dec.state # "FrameOffset" => Rank(dec.state) >= Rank(prev.state)
             /\ dec.state = "FrameOffset" => prev.state = "CrcB1"

\* the id of a frame with the offset flag ended and the decoder went to OffsetB0
C24_Witness ==
    /\ call.op = "decode"
    /\ prev.state = "MsgId"
    /\ dec.state = "OffsetB0"
    /\ prev.offset
    /\ prev.id_len = 1

(***************************************************************************)
(* C25.  For each frame the decoder consumes, after the three header       *)
(* bytes, exactly id_length message-id bytes, then two reserved bytes if   *)
(* and only if the offset flag is set, then exactly data_length payload    *)
(* bytes (none at all when data_length is 0, also when the offset flag is  *)
(* set), then exactly two checksum bytes, where id_length, the offset flag *)
(* and data_length are those of that frame's own header.                   *)
(***************************************************************************)
\* the header of the frame being read, from the bytes stored for it
OwnIdLength == id_length_raw(dec.packet_storage)
OwnDataLength == data_length(dec.packet_storage)
OwnReserved == IF offset(dec.packet_storage) THEN OFFSET_SIZE ELSE 0
\* a decode call that stored a byte of a frame
Consumed ==
    /\ call.op = "decode"
    /\ call.byte # 0
    /\ prev.state # "FrameOffset"
    /\ ret # InsufficientBufferSize
\* the number of bytes of the frame stored after the call
Stored == prev.bytes_read + 1

C25_ConsumesByOwnHeader ==
    Consumed =>
        /\ prev.state = "MsgId" =>
               /\ dec.state = "MsgId" <=> Stored < HEADER_SIZE + OwnIdLength
               /\ dec.state # "MsgId" => Stored = HEADER_SIZE + OwnIdLength
               /\ dec.state = "OffsetB0" <=>
                      (Stored = HEADER_SIZE + OwnIdLength /\ OwnReserved # 0)
        /\ dec.state = "Payload" =>
               Stored < HEADER_SIZE + OwnIdLength + OwnReserved + OwnDataLength
        /\ dec.state = "CrcB0" =>
               Stored = HEADER_SIZE + OwnIdLength + OwnReserved + OwnDataLength
        /\ prev.state = "CrcB1" =>
               Stored = HEADER_SIZE + OwnIdLength + OwnReserved + OwnDataLength
                            + CHECKSUM_SIZE


(***************************************************************************)
(* C26.  For a packet whose offset flag is set, the two reserved bytes     *)
(* after the message id are not payload: payload() returns the data_length *)
(* bytes after them, checksum() reads the two bytes after that payload,    *)
(* and the bytes the Decoder accumulated for the frame are read by         *)
(* Packet::new with that layout.                                           *)
(***************************************************************************)
\* where the payload of packet b starts when two reserved bytes follow the id
AfterReserved(b) == HEADER_SIZE + id_length_raw(b) + OFFSET_SIZE
\* a decode call returned a packet whose offset flag is set
ReturnedOffsetPacket ==
    call.op = "decode" /\ ret.kind = "OkPacket" /\ offset(ret.bytes)

C26_ReservedBytesAreNotPayload ==
    ReturnedOffsetPacket =>
        /\ Len(ret.bytes) =
               AfterReserved(ret.bytes) + data_length(ret.bytes) + CHECKSUM_SIZE
        /\ payload(ret.bytes).val =
               SubSeq(ret.bytes, AfterReserved(ret.bytes) + 1,
                      AfterReserved(ret.bytes) + data_length(ret.bytes))
        /\ checksum(ret.bytes).val =
               read_u16(ret.bytes, AfterReserved(ret.bytes) + data_length(ret.bytes))


(***************************************************************************)
(* C27.  compute_checksum() depends only on the first 3 + id_length +      *)
(* data_length bytes of the buffer, not on the stored checksum or on any   *)
(* byte after it; so on any buffer with id_length in 1..=15 and at least   *)
(* 5 + id_length + data_length bytes, set_checksum(compute_checksum())     *)
(* succeeds and makes check_checksum() and Packet::new succeed.            *)
(***************************************************************************)
\* set_checksum(compute_checksum()) was applied to a buffer that can hold
\* the packet its header describes
Sealable(b) ==
    /\ id_length_raw(b) \in 1..MAX_MSG_ID_SIZE
    /\ Len(b) >= HEADER_SIZE + id_length_raw(b) + data_length(b) + CHECKSUM_SIZE
Sealed == op.name = "set_checksum" /\ Sealable(pre)
\* header, id and payload of buffer b
Covered(b) == SubSeq(b, 1, HEADER_SIZE + id_length_raw(b) + data_length(b))

C27_SealedBufferIsAccepted ==
    Sealed =>
        /\ op.ok
        /\ compute_checksum(pre) = compute_checksum(Covered(pre))
        /\ compute_checksum(buf) = compute_checksum(pre)
        /\ checksum(buf) = compute_checksum(buf)
        /\ check_checksum(buf).ok
        /\ Packet_new(buf).ok

\* a buffer Packet::new refused for its checksum is accepted once sealed, and
\* bytes follow its checksum
C27_Witness ==
    /\ Sealed
    /\ buf # pre
    /\ ~Packet_new(pre).ok
    /\ Packet_new(buf).ok
    /\ Len(buf) > Len(Covered(buf)) + CHECKSUM_SIZE


(***************************************************************************)
(* C28.  The type codes 13..=15 are accepted by Packet::new and by the     *)
(* Decoder: what Packet::new returns (and with it decode) does not depend  *)
(* on the four-bit type code.  Only typ() reports them: it returns         *)
(* UnknownMessageType(code) for exactly the codes 13..=15 and the defined  *)
(* Message Type for the codes 0..=12.                                      *)
(***************************************************************************)
\* Packet::new was applied to the buffer as drawn
Checked == op.name = "new" /\ op.arg = <<>> /\ Len(buf) >= HEADER_SIZE
\* buffer b with the checksum of its header, id and payload stored
Resealed(b) == set_checksum(b, compute_checksum(b).val).val
\* what the decoder returns on the last byte of the frame of packet b
Decoded(b) ==
    LET frame == encode_buf(b)
        run == decode_all(Decoder_new(Fill(0, Len(b))), frame, 1, <<>>)
    IN  run.rets[Len(frame) - 1]

C28_TypeCodeIsNeverRefused ==
    /\ Checked =>
           \A c \in TypeCodes : \A b \in {set_typ(buf, c)} :
               /\ check_len(b) = check_len(buf)
               /\ check_payload_length(b) = check_payload_length(buf)
               /\ ~op.ok /\ op.err # "InvalidChecksum" =>
                      Packet_new(b).err = op.err
               /\ op.ok => Packet_new(Resealed(b)).ok
               /\ op.ok /\ c = typ_raw(buf) => Packet_new(b).ok
    /\ Checked /\ op.ok /\ typ_raw(buf) > 12 /\ Len(buf) = wire_size(buf).val =>
           Decoded(buf) = OkPacket(buf)
    /\ op.name = "typ" =>
           /\ op.ok <=> typ_raw(buf) \in 0..12
           /\ op.ok => typ(buf) = Ok(MessageTypes[typ_raw(buf) + 1])
           /\ ~op.ok =>
                  /\ typ_raw(buf) \in 13..15
                  /\ op.err = "UnknownMessageType"
                  /\ typ(buf).val = typ_raw(buf)

\* typ() reported the type code of a packet Packet::new accepts as unknown
C28_Witness ==
    /\ op.name = "typ"
    /\ op.err = "UnknownMessageType"
    /\ typ_raw(buf) > 12
    /\ Packet_new(buf).ok


(***************************************************************************)
(* C29.  Decoding after a delimiter does not depend on what the decoder    *)
(* was given before: a decoder with any earlier input and a decoder of the *)
(* same buffer size without any, each given 0x00 and then the same bytes,  *)
(* return the same result on every one of those bytes.                     *)
(***************************************************************************)
\* what decoder d returns on each byte of a delimiter followed by frame f
AfterDelimiter(d, f) == decode_all(d, <<0>> \o f, 1, <<>>).rets
\* a decoder of the buffer size of d that was given nothing yet
Fresh(d) == Decoder_new(Fill(0, Len(d.packet_storage)))

C29_HistoryIndependent ==
    \A f \in LogFrames : AfterDelimiter(dec, f) = AfterDelimiter(Fresh(dec), f)


(***************************************************************************)
(* C30.  After any sequence of decode and reset calls, below saturation,   *)
(* count() is the number of decode calls that returned a packet and        *)
(* invalid_count() the number that returned a PacketError; calls that      *)
(* return InsufficientBufferSize, frames cut off by a delimiter and        *)
(* reset() change neither.                                                 *)
(***************************************************************************)
\* the number of noted returns of the given kind
Returned(kind) == Cardinality({i \in DOMAIN got : got[i].ret.kind = kind})

C30_CountersMatchReturns ==
    /\ count(dec) = Returned("OkPacket")
    /\ invalid_count(dec) = Returned("PacketError")
    /\ (call.op = "reset" \/ ret.kind \in {"OkNone", "InsufficientBufferSize"}) =>
           /\ count(dec) = count(prev)
           /\ invalid_count(dec) = invalid_count(prev)

\* a delimiter cuts a frame off after a packet, an error and a full buffer
\* were returned
C30_Witness ==
    /\ call = [op |-> "decode", byte |-> 0]
    /\ prev.state \notin {"FrameOffset", "HeaderB0"}
    /\ Returned("OkPacket") > 0
    /\ Returned("PacketError") > 0
    /\ Returned("InsufficientBufferSize") > 0


(***************************************************************************)
(* C31.  Once decode has returned InsufficientBufferSize for a frame,      *)
(* every following non-delimiter byte returns InsufficientBufferSize too,  *)
(* with state and cursor unchanged, so the frame yields no packet and no   *)
(* PacketError; only a delimiter byte or reset() lets the decoder accept   *)
(* bytes again.                                                            *)
(***************************************************************************)
\* the last call was a decode that returned InsufficientBufferSize
Refused == call.op = "decode" /\ ret = InsufficientBufferSize
NonDelimiters == Byte \ {0}
\* decoder d takes byte b as the start of a frame and stores what follows
AcceptsAgain(d, b) ==
    \A o \in {decode(d, b)} :
        /\ o.ret = OkNone
        /\ o.dec.state = "HeaderB0"
        /\ \A n \in {1, 2, 255} : \A q \in {decode(o.dec, n)} :
               /\ q.ret = OkNone
               /\ q.dec.bytes_read = 1

C31_RefusesUntilDelimiterOrReset ==
    Refused =>
        /\ dec.state = prev.state
        /\ dec.bytes_read = prev.bytes_read
        /\ \A b \in NonDelimiters : \A o \in {decode(dec, b)} :
               /\ o.ret = InsufficientBufferSize
               /\ o.dec.state = dec.state
               /\ o.dec.bytes_read = dec.bytes_read
               /\ count(o.dec) = count(dec)
               /\ invalid_count(o.dec) = invalid_count(dec)
        /\ \A b \in NonDelimiters :
               /\ AcceptsAgain(decode(dec, 0).dec, b)
               /\ AcceptsAgain(reset(dec), b)

\* one frame was sent and a byte inserted into it: the last two calls both
\* returned InsufficientBufferSize and the delimiter of the frame is still
\* to come
C31_Witness ==
    /\ Refused
    /\ events = 2
    /\ wire = <<0>>
    /\ Len(got) = 2
    /\ got[1].ret = InsufficientBufferSize
    /\ got[2].ret = InsufficientBufferSize
    /\ call.byte # 0


(***************************************************************************)
(* C32.  The header values the decoder extracts byte by byte (data_len,    *)
(* the offset flag, id_len) equal what data_length(), offset() and         *)
(* id_length_raw() return on the bytes accumulated for the same frame, and *)
(* the span handed to Packet::new has at least 6 bytes, so decode never    *)
(* returns PacketError(MissingHeader) or PacketError(MissingChecksum).     *)
(***************************************************************************)
\* the three header bytes of the frame being read are accumulated
HeaderRead ==
    dec.state \in {"MsgId", "OffsetB0", "OffsetB1", "Payload", "CrcB0", "CrcB1"}
\* the shortest span a frame accumulates: the header, one id byte, the checksum
ShortestSpan == HEADER_SIZE + 1 + CHECKSUM_SIZE
\* a decode call handed the accumulated bytes to Packet::new
Handed ==
    /\ call.op = "decode"
    /\ call.byte # 0
    /\ prev.state = "CrcB1"
    /\ ret # InsufficientBufferSize

C32_DecoderHeaderMatchesPacket ==
    /\ HeaderRead =>
           /\ dec.bytes_read >= HEADER_SIZE
           /\ dec.data_len = data_length(dec.packet_storage)
           /\ dec.offset = offset(dec.packet_storage)
           /\ dec.id_len = id_length_raw(dec.packet_storage)
    /\ dec.state = "HeaderB2" =>
           /\ dec.bytes_read = 2
           /\ dec.data_len = data_length(dec.packet_storage)
           /\ dec.offset = offset(dec.packet_storage)
    /\ Handed =>
           /\ prev.bytes_read + 1 >= ShortestSpan
           /\ ret.kind \in {"OkPacket", "PacketError"}
           /\ ret.kind = "OkPacket" => Len(ret.bytes) = prev.bytes_read + 1
    /\ ret.kind = "PacketError" =>
           /\ Handed
           /\ ret.err \notin {"MissingHeader", "MissingChecksum"}

\* a frame of the smallest span, six bytes, was handed to Packet::new after a
\* frame with other header values, and refused for another reason
C32_Witness ==
    /\ Handed
    /\ prev.bytes_read + 1 = ShortestSpan
    /\ ret.kind = "PacketError"
    /\ prev.data_len = data_length(prev.packet_storage)
    /\ Len(got) > 1

====
